---- MODULE Spec2Model ----
(***************************************************************************)
(* Verification model of the vibe web framework (package vibe, middleware, *)
(* httpx): the timeout and recovery middleware, the HandlerFunc adapter,   *)
(* the response capturer and the middleware chain composer.                *)
(*                                                                         *)
(* One request is served through a chain  m1(m2(...(handler)))  by two     *)
(* goroutines: "main", the controlling flow that called ServeHTTP, and     *)
(* "handler", the goroutine middleware.WithTimeout starts.  Every call on  *)
(* the response sink is one step, so the two goroutines and the deadline   *)
(* interleave as the Go scheduler allows.                                  *)
(*                                                                         *)
(* Error messages are sequences of string tokens (Nil, the empty sequence, *)
(* is Go's nil error); formatting appends or prepends tokens.              *)
(***************************************************************************)
EXTENDS Integers, Sequences, FiniteSets, TLC

VARIABLES
    chain,      \* middleware around the terminal handler, outermost first
    script,     \* the terminal handler's calls on its ResponseWriter, in order
    ending,     \* how the terminal handler ends: nil, an error or a panic
    timeout,    \* the duration given to middleware.WithTimeout
    sinkFails,  \* TRUE: the sink is the errorResponseWriter of the tests
    logger,     \* the *log.Logger given to middleware.Recovery ("nil": none)
    sink,       \* the response sink: [status, body]
    wlog,       \* history: every call made on the sink, in order
    logbuf,     \* the logger's output, one entry per Printf
    pc,         \* per goroutine: position
    depth,      \* per goroutine: the chain layer it executes (Len(chain)+1: handler)
    out,        \* per goroutine: the value being returned or the panic in flight
    pend,       \* per goroutine: the JSON error response being written
    wres,       \* per goroutine: the error the last JSON write returned
    ip,         \* index of the next call of script
    tstate,     \* the timeout wrapper's state: none, running, completed, timed-out
    fired,      \* history: the select branches taken, in order
    done,       \* number of values in the buffered channel done (capacity 1)
    errSlot,    \* the variable err shared by the goroutine and the select
    capErr,     \* ResponseCapturer.Err
    ctxErr,     \* the derived context: none (live), deadline, canceled
    crashed,    \* TRUE: an unrecovered panic in a goroutine ended the process
    hist,       \* history flags about the order of signal and deadline
    \* chain composition
    cH,         \* the terminal handler given to chainMiddleware
    cM1, cM2,   \* two middleware sequences
    cInner,     \* chainMiddleware(h, M2...), once built
    cNested,    \* chainMiddleware(cInner, M1...), once built
    cOnce,      \* chainMiddleware(h, (M1 ++ M2)...), once built
    cServed,    \* what serving a request through each built chain did, in order
    \* router and groups
    heap,       \* the backing arrays of the middleware slices, by address
    options,    \* the options given to vibe.New
    newPc,      \* vibe.New's position: index of the next option, then use, done
    router,     \* the Router: [middlewares, disableRecovery, disableTimeout, timeout]
    variant,    \* which registerRoute the build has: "handler" or "func"
    groups,     \* the Groups created, in order
    mux,        \* the multiplexer's bindings
    fresh,      \* number of middleware values created so far
    used,       \* history: the middleware given to Router.Use, in order
    served,     \* the last request served through the router and its response
    \* a ResponseCapturer used on its own
    rcCalls,    \* history: the calls made on the capturer and what they returned
    \* concurrent requests through one timeout-wrapped handler
    conc,       \* per request: both flows' positions and the wrapper's locals
    chans       \* the channels made so far: the number of values each holds

reqVars == <<chain, script, ending, timeout, sinkFails, logger, sink, wlog, logbuf, pc,
             depth, out, pend, wres, ip, tstate, fired, done, errSlot, capErr,
             ctxErr, crashed, hist>>

compVars == <<cH, cM1, cM2, cInner, cNested, cOnce, cServed>>

routerVars == <<heap, options, newPc, router, variant, groups, mux, fresh, used, served>>

\* The variables of the other parts of the framework.
capVars == <<rcCalls>>

concVars == <<conc, chans>>

otherVars == <<routerVars, capVars, concVars>>

\* What no step of building or using a router changes.
routerFrame == <<reqVars, compVars, capVars, concVars>>

vars == <<reqVars, compVars, otherVars>>

----------------------------------------------------------------------------
(* Bounds *)

MaxWrites == 1       \* most Write calls of a handler
MaxTimeout == 1      \* timeout durations range over -1..MaxTimeout
MaxMws == 2          \* longest middleware sequence given to chainMiddleware
MaxOptions == 3      \* most options given to vibe.New
MaxDuration == 2     \* WithTimeout durations range over 1..MaxDuration
MaxArgs == 2         \* most middleware given to one Group call
MaxCalls == 3        \* most calls made on a ResponseCapturer used on its own
MaxRequests == 2     \* concurrent requests through one timeout-wrapped handler

----------------------------------------------------------------------------
(* Values *)

Nil == <<>>

G == {"main", "handler"}

StatusOK == 200
StatusBadRequest == 400
StatusNotFound == 404
StatusRequestTimeout == 408
StatusInternalServerError == 500
StatusGatewayTimeout == 504
StatusMethodNotAllowed == 405

\* const timeout = 60 * time.Second, in seconds.
DefaultTimeout == 60

\* done := make(chan struct{}, 1): the capacity of the channel.
DoneCap == 1

\* What a call yields: nil, an error (err), or a panic with value val.
NoValue == [type |-> "none", err |-> <<>>, str |-> "", num |-> 0]
NilOut == [kind |-> "nil", err |-> <<>>, val |-> NoValue]
ErrOut(msg) == [kind |-> "err", err |-> msg, val |-> NoValue]
PanicOut(v) == [kind |-> "panic", err |-> <<>>, val |-> v]

\* The values a handler panics with: an error, a string, an int.
ErrorValue(msg) == [type |-> "error", err |-> msg, str |-> "", num |-> 0]
StringValue(s) == [type |-> "string", err |-> Nil, str |-> s, num |-> 0]
IntValue(n) == [type |-> "int", err |-> Nil, str |-> "", num |-> n]

PanicValues ==
    { ErrorValue(<<"test panic error">>), StringValue("string panic"), IntValue(42) }

Endings ==
    {NilOut, ErrOut(<<"handler error">>)} \cup {PanicOut(v) : v \in PanicValues}

\* The calls a handler makes on its ResponseWriter.
HdrOp(code) == [op |-> "hdr", code |-> code]
WriteOp == [op |-> "write", code |-> 0]

\* A handler's calls: an optional WriteHeader, then up to MaxWrites Writes.
Scripts ==
    { h \o [i \in 1..n |-> WriteOp] :
        h \in {<<>>, <<HdrOp(StatusOK)>>, <<HdrOp(StatusNotFound)>>},
        n \in 0..MaxWrites }

\* vibe.New: the global middleware the options leave installed, in Use order.
New(disableRecovery, disableTimeout) ==
    (IF ~disableRecovery THEN <<"recovery">> ELSE <<>>)
        \o (IF ~disableTimeout THEN <<"timeout">> ELSE <<>>)

\* The chains served: what vibe.New installs under each choice of options.
\* middleware.Recovery(l)(h) and middleware.WithTimeout(d)(h), as the
\* middleware tests build them, are the chains <<"recovery">> and <<"timeout">>.
Chains == { New(dr, dt) : dr \in BOOLEAN, dt \in BOOLEAN }

DefaultChain == New(FALSE, FALSE)

\* The loggers Recovery is given: vibe.New passes the router's own logger; the
\* middleware tests pass nil or a logger of their own.
Loggers(c) == IF c = <<"recovery">> THEN {"nil", "test", "vibe"} ELSE {"vibe"}

\* The layer at depth d of the chain; below the last middleware, the handler.
Layer(d) == IF d >= 1 /\ d <= Len(chain) THEN chain[d] ELSE
            IF d = Len(chain) + 1 THEN "handler" ELSE "caller"

----------------------------------------------------------------------------
(* Errors and their formatting *)

\* fmt.Sprint of a panic value ("%v").
Sprint(v) == IF v.type = "int" THEN ToString(v.num) ELSE v.str

\* Normalization that keeps only values that are errors.
NormalizeErrorsOnly(rec) == IF rec.type = "error" THEN rec.err ELSE <<"unknown panic">>

\* Recovery: err, ok := rec.(error); if !ok { err = fmt.Errorf("%v", rec) }
Normalize(rec) == IF rec.type = "error" THEN rec.err ELSE <<Sprint(rec)>>

\* InternalError that drops the cause.
InternalErrorMsgBare(err) == <<"internal server error">>

\* httpx.InternalError: the error the 500 response carries.
InternalErrorMsg(err) ==
    IF err = Nil THEN <<"internal server error">>
    ELSE <<"internal server error: ">> \o err

\* ResponseCapturer.WriteHeader: fmt.Errorf("response status code: %d", code)
StatusErr(code) == <<"response status code: ", ToString(code)>>

\* JSONErrorResponder.Error: the message of the body {"error": message}.
ErrorMessage(err) == IF err = Nil THEN <<"unknown error">> ELSE err

TimedOutErr == <<"request timed out">>

\* msg occurs in s as a contiguous run of tokens (strings.Contains).
Contains(s, msg) ==
    \E i \in 0..(Len(s) - Len(msg)) : SubSeq(s, i + 1, i + Len(msg)) = msg

----------------------------------------------------------------------------
(* The response sink *)

\* errorResponseWriter.Write fails with this error.
WriteError == <<"write error">>

\* WriteHeader on the sink: the first status stands (httptest.ResponseRecorder);
\* errorResponseWriter.WriteHeader does nothing.
SinkWriteHeader(s, code) ==
    IF sinkFails \/ s.status # 0 THEN s ELSE [s EXCEPT !.status = code]

\* Write on the sink: an implicit 200 when no status was written; the
\* errorResponseWriter writes nothing.
SinkWrite(s, chunk) ==
    IF sinkFails THEN s
    ELSE [status |-> IF s.status = 0 THEN StatusOK ELSE s.status,
          body |-> Append(s.body, chunk)]

\* The error Write returns.
SinkWriteErr == IF sinkFails THEN WriteError ELSE Nil

\* A body chunk: JSON {"error": msg}, or the handler's own data.
ErrorBody(msg) == [kind |-> "error", msg |-> msg]
DataBody == [kind |-> "data", msg |-> <<"OK">>]

----------------------------------------------------------------------------
(* ResponseCapturer *)

\* setError: r.Err = err
setError(old, err) == err

\* A capturer that records server errors only.
CapturerWriteHeaderServerOnly(e, code) ==
    IF code >= StatusInternalServerError THEN setError(e, StatusErr(code)) ELSE e

\* The capturer's Err after WriteHeader(code).
CapturerWriteHeader(e, code) ==
    IF code >= StatusBadRequest THEN setError(e, StatusErr(code)) ELSE e

\* The capturer's Err after a Write that returned err.
CapturerWrite(e, err) == IF err # Nil THEN setError(e, err) ELSE e

\* Only the goroutine WithTimeout starts writes through the capturer.
ThroughCapturer(g) == g = "handler"

\* g calls w.WriteHeader(code) on its ResponseWriter.
WriteHeader(g, who, code) ==
    /\ sink' = SinkWriteHeader(sink, code)
    /\ capErr' = IF ThroughCapturer(g) THEN CapturerWriteHeader(capErr, code)
                  ELSE capErr
    /\ wlog' = Append(wlog, [g |-> g, who |-> who, op |-> "hdr", code |-> code])

\* g calls w.Write(chunk) on its ResponseWriter.
Write(g, who, chunk) ==
    /\ sink' = SinkWrite(sink, chunk)
    /\ capErr' = IF ThroughCapturer(g) THEN CapturerWrite(capErr, SinkWriteErr)
                  ELSE capErr
    /\ wlog' = Append(wlog, [g |-> g, who |-> who, op |-> "write", code |-> 0])

----------------------------------------------------------------------------
(* Slices of middleware *)

\* A slice is a window [arr, len, cap] on a backing array of the heap; every
\* slice of the router starts at the first element of its array.
NilSlice == [arr |-> 0, len |-> 0, cap |-> 0]

\* The elements of slice s.
Elems(h, s) == [i \in 1..s.len |-> h[s.arr][i]]

\* The Router before vibe.New has applied any option.
NewRouter ==
    [middlewares |-> NilSlice, disableRecovery |-> FALSE, disableTimeout |-> FALSE,
     timeout |-> DefaultTimeout]

NoRequest ==
    [method |-> "", path |-> <<>>, status |-> 0, body |-> "", trace |-> <<>>,
     handler |-> "", bindings |-> 0]

\* No router is being built.
RouterIdle ==
    /\ heap = <<>> /\ options = <<>> /\ newPc = [at |-> "none", i |-> 0]
    /\ router = NewRouter /\ variant = "handler"
    /\ groups = <<>> /\ mux = {} /\ fresh = 0 /\ used = <<>>
    /\ served = NoRequest

\* No capturer is used on its own.
CapturerIdle == rcCalls = <<>>

\* No concurrent requests are served.
ConcIdle == conc = <<>> /\ chans = <<>>

OtherIdle == RouterIdle /\ CapturerIdle /\ ConcIdle

----------------------------------------------------------------------------
(* Initial state: a request is about to enter the outermost layer *)

NoPend == [code |-> 0, msg |-> Nil, who |-> "none", then |-> "none"]

\* No request is being served.
ReqIdle ==
    /\ chain = <<>> /\ script = <<>> /\ ending = NilOut /\ timeout = 0
    /\ sinkFails = FALSE /\ logger = "vibe"
    /\ sink = [status |-> 0, body |-> <<>>]
    /\ wlog = <<>> /\ logbuf = <<>>
    /\ pc = [g \in G |-> "none"]
    /\ depth = [g \in G |-> 0]
    /\ out = [g \in G |-> NilOut]
    /\ pend = [g \in G |-> NoPend]
    /\ wres = [g \in G |-> Nil]
    /\ ip = 1 /\ tstate = "none" /\ fired = <<>> /\ done = 0
    /\ errSlot = Nil /\ capErr = Nil /\ ctxErr = "none" /\ crashed = FALSE
    /\ hist = [signalled |-> FALSE, sigBeforeDeadline |-> FALSE,
                deadlineBeforeSig |-> FALSE, parkedAtSig |-> FALSE,
                parkedAtDeadline |-> FALSE, sawDone |-> FALSE, sawCtx |-> FALSE,
                reqCtx |-> "inbound", inboundCancelled |-> FALSE,
                cancelBeforeSig |-> FALSE, parkedAtCancel |-> FALSE]

\* No chain is being composed.
CompIdle ==
    /\ cH = "h1" /\ cM1 = <<>> /\ cM2 = <<>>
    /\ cInner = <<>> /\ cNested = <<>> /\ cOnce = <<>> /\ cServed = <<>>

ReqInit ==
    /\ chain \in Chains
    /\ script \in Scripts
    /\ ending \in Endings
    /\ timeout \in -1..MaxTimeout
    /\ sinkFails \in BOOLEAN
    /\ logger \in Loggers(chain)
    /\ sink = [status |-> 0, body |-> <<>>]
    /\ wlog = <<>>
    /\ logbuf = <<>>
    /\ pc = [g \in G |-> IF g = "main" THEN "call" ELSE "none"]
    /\ depth = [g \in G |-> IF g = "main" THEN 1 ELSE 0]
    /\ out = [g \in G |-> NilOut]
    /\ pend = [g \in G |-> NoPend]
    /\ wres = [g \in G |-> Nil]
    /\ ip = 1
    /\ tstate = "none"
    /\ fired = <<>>
    /\ done = 0
    /\ errSlot = Nil
    /\ capErr = Nil
    /\ ctxErr = "none"
    /\ crashed = FALSE
    /\ hist = [signalled |-> FALSE, sigBeforeDeadline |-> FALSE,
                deadlineBeforeSig |-> FALSE, parkedAtSig |-> FALSE,
                parkedAtDeadline |-> FALSE, sawDone |-> FALSE, sawCtx |-> FALSE,
                reqCtx |-> "inbound", inboundCancelled |-> FALSE,
                cancelBeforeSig |-> FALSE, parkedAtCancel |-> FALSE]

Init == ReqInit /\ CompIdle /\ OtherIdle

config == <<chain, script, ending, timeout, sinkFails, logger>>

\* What no step of serving a request changes.
reqFrame == <<config, compVars, otherVars>>

\* A goroutine runs only while the process lives.
Runs(g) == ~crashed /\ pc[g] \notin {"none", "exited", "returned", "panicked"}

----------------------------------------------------------------------------
(* The select of WithTimeout and the two events it waits for *)

\* A select that polls the context only: the completion signal is never seen.
ReadyContextOnly(d, c) == IF c # "none" THEN {"timed-out"} ELSE {}

\* A select whose completion case can proceed without a value in done.
ReadyUnsignalled(d, c) ==
    {"completed"} \cup (IF c # "none" THEN {"timed-out"} ELSE {})

\* The cases of the select that can proceed: a value in done, ctx.Done() closed.
Ready(d, c) ==
    (IF d > 0 THEN {"completed"} ELSE {}) \cup (IF c # "none" THEN {"timed-out"} ELSE {})

\* The controlling flow is blocked in the select, so an event wakes it.
Waiting(p) == p = "parked"

\* A polling loop: the controlling flow comes back to the select.
BranchPcLoop(b) == "select"

\* Where the controlling flow continues when the select takes branch b.
BranchPc(b) == IF b = "completed" THEN "gotDone" ELSE "gotTimeout"

\* The select takes branch b.
Take(b) ==
    /\ tstate' = b
    /\ fired' = Append(fired, b)
    /\ pc' = [pc EXCEPT !["main"] = BranchPc(b)]

\* WithTimeout up to the select: derive the context, make the channel,
\* start the goroutine.
TimeoutStart ==
    /\ Runs("main") /\ pc["main"] = "call" /\ Layer(depth["main"]) = "timeout"
    /\ ctxErr' = IF timeout <= 0 THEN "deadline" ELSE "none"
    /\ done' = 0
    /\ errSlot' = Nil
    /\ capErr' = Nil
    /\ tstate' = "running"
    /\ pc' = [main |-> "select", handler |-> "call"]
    /\ depth' = [depth EXCEPT !["handler"] = depth["main"] + 1]
    /\ hist' = [hist EXCEPT !.deadlineBeforeSig = (timeout <= 0),
                            !.reqCtx = "derived"]
    /\ UNCHANGED <<reqFrame, sink, wlog, logbuf, out, pend, wres, ip, fired, crashed>>

\* The controlling flow reaches the select: it takes a ready case (any one when
\* both are ready) or blocks.
Select ==
    /\ Runs("main") /\ pc["main"] = "select"
    /\ IF Ready(done, ctxErr) = {}
       THEN /\ pc' = [pc EXCEPT !["main"] = "parked"]
            /\ UNCHANGED <<tstate, fired, done>>
       ELSE \E b \in Ready(done, ctxErr) :
               /\ Take(b)
               /\ done' = IF b = "completed" THEN done - 1 ELSE done
    /\ hist' = [hist EXCEPT !.sawDone = (done > 0), !.sawCtx = (ctxErr # "none")]
    /\ UNCHANGED <<reqFrame, sink, wlog, logbuf, depth, out, pend, wres, ip, errSlot,
                   capErr, ctxErr, crashed>>

\* A send on an unbuffered channel: it proceeds only when the select is blocked
\* on the channel.
SendUnbuffered ==
    /\ hist' = [hist EXCEPT !.signalled = TRUE,
                            !.sigBeforeDeadline = (ctxErr = "none"),
                            !.parkedAtSig = Waiting(pc["main"])]
    /\ Waiting(pc["main"])
    /\ tstate' = "completed"
    /\ fired' = Append(fired, "completed")
    /\ done' = done

\* The deferred  done <- struct{}{}  of the goroutine: a blocked select receives
\* the value at once, otherwise it is buffered; the send blocks while the
\* buffer is full.
Send ==
    /\ hist' = [hist EXCEPT !.signalled = TRUE,
                            !.sigBeforeDeadline = (ctxErr = "none"),
                            !.parkedAtSig = Waiting(pc["main"])]
    /\ IF Waiting(pc["main"])
       THEN /\ tstate' = "completed"
            /\ fired' = Append(fired, "completed")
            /\ done' = done
       ELSE /\ done < DoneCap
            /\ done' = done + 1
            /\ UNCHANGED <<tstate, fired>>

\* The deadline of the derived context elapses.
Deadline ==
    /\ ~crashed /\ tstate # "none" /\ ctxErr = "none" /\ timeout > 0
    /\ ctxErr' = "deadline"
    /\ hist' = [hist EXCEPT !.deadlineBeforeSig = ~hist.signalled,
                            !.parkedAtDeadline = Waiting(pc["main"])]
    /\ IF Waiting(pc["main"])
       THEN Take("timed-out")
       ELSE UNCHANGED <<tstate, fired, pc>>
    /\ UNCHANGED <<reqFrame, sink, wlog, logbuf, depth, out, pend, wres, ip, done,
                   errSlot, capErr, crashed>>

\* A derived context that does not follow its parent, as one derived from
\* context.Background() would.
DerivedErrDetached(parentDone, c) == c

\* ctx, cancel := context.WithTimeout(r.Context(), timeout): the derived
\* context is done as soon as its parent is.
DerivedErr(parentDone, c) == IF parentDone /\ c = "none" THEN "canceled" ELSE c

\* The inbound request's context is cancelled (the client went away) while the
\* invocation runs.
InboundCancel ==
    /\ ~crashed /\ tstate = "running" /\ ctxErr = "none" /\ ~hist.inboundCancelled
    /\ ctxErr' = DerivedErr(TRUE, ctxErr)
    /\ hist' = [hist EXCEPT !.inboundCancelled = TRUE,
                            !.cancelBeforeSig = ~hist.signalled,
                            !.parkedAtCancel = Waiting(pc["main"])]
    /\ IF Waiting(pc["main"]) /\ ctxErr' # "none"
       THEN Take("timed-out")
       ELSE UNCHANGED <<tstate, fired, pc>>
    /\ UNCHANGED <<reqFrame, sink, wlog, logbuf, depth, out, pend, wres, ip, done,
                   errSlot, capErr, crashed>>

\* The pc of both goroutines after the goroutine sent on done and went to hp.
AfterSend(hp) ==
    [main |-> IF Waiting(pc["main"]) THEN BranchPc("completed") ELSE pc["main"],
     handler |-> hp]

\* A completion branch that leaves the derived context as it is.
CompletionBranchNoCancel ==
    /\ Runs("main") /\ pc["main"] = "gotDone"
    /\ out' = [out EXCEPT !["main"] = IF errSlot # Nil THEN ErrOut(errSlot) ELSE NilOut]
    /\ pc' = [pc EXCEPT !["main"] = "adapter"]
    /\ UNCHANGED <<reqFrame, sink, wlog, logbuf, depth, pend, wres, ip, tstate, fired,
                   done, errSlot, capErr, ctxErr, crashed, hist>>

\* case <-done: return err; the deferred cancel() runs.
CompletionBranch ==
    /\ Runs("main") /\ pc["main"] = "gotDone"
    /\ out' = [out EXCEPT !["main"] = IF errSlot # Nil THEN ErrOut(errSlot) ELSE NilOut]
    /\ ctxErr' = IF ctxErr = "none" THEN "canceled" ELSE ctxErr
    /\ pc' = [pc EXCEPT !["main"] = "adapter"]
    /\ UNCHANGED <<reqFrame, sink, wlog, logbuf, depth, pend, wres, ip, tstate, fired,
                   done, errSlot, capErr, crashed, hist>>

\* The response of the timeout branch as the gateway-timeout variant writes it.
GatewayTimeoutResponse ==
    [code |-> StatusGatewayTimeout, msg |-> <<"Request timeout">>]

\* The response of the timeout branch:
\* httpx.Error(w, errors.New("request timed out"), http.StatusRequestTimeout)
TimeoutResponse ==
    [code |-> StatusRequestTimeout, msg |-> ErrorMessage(TimedOutErr)]

\* case <-ctx.Done(): httpx.Error(...) begins.
TimeoutBranch ==
    /\ Runs("main") /\ pc["main"] = "gotTimeout"
    /\ pend' = [pend EXCEPT !["main"] =
                    [code |-> TimeoutResponse.code, msg |-> TimeoutResponse.msg,
                     who |-> "timeout", then |-> "timeoutDone"]]
    /\ pc' = [pc EXCEPT !["main"] = "jsonHdr"]
    /\ UNCHANGED <<reqFrame, sink, wlog, logbuf, depth, out, wres, ip, tstate, fired,
                   done, errSlot, capErr, ctxErr, crashed, hist>>

\* The timeout branch returns what httpx.Error returned; the deferred cancel() runs.
TimeoutReturn ==
    /\ Runs("main") /\ pc["main"] = "timeoutDone"
    /\ out' = [out EXCEPT !["main"] =
                   IF wres["main"] # Nil THEN ErrOut(wres["main"]) ELSE NilOut]
    /\ ctxErr' = IF ctxErr = "none" THEN "canceled" ELSE ctxErr
    /\ pc' = [pc EXCEPT !["main"] = "adapter"]
    /\ UNCHANGED <<reqFrame, sink, wlog, logbuf, depth, pend, wres, ip, tstate, fired,
                   done, errSlot, capErr, crashed, hist>>

----------------------------------------------------------------------------
(* httpx.JSON: WriteHeader, then Encode *)

JSONHeader(g) ==
    /\ Runs(g) /\ pc[g] = "jsonHdr"
    /\ WriteHeader(g, pend[g].who, pend[g].code)
    /\ pc' = [pc EXCEPT ![g] = "jsonBody"]
    /\ UNCHANGED <<reqFrame, logbuf, depth, out, pend, wres, ip, tstate, fired, done,
                   errSlot, ctxErr, crashed, hist>>

JSONBody(g) ==
    /\ Runs(g) /\ pc[g] = "jsonBody"
    /\ Write(g, pend[g].who, ErrorBody(pend[g].msg))
    /\ wres' = [wres EXCEPT ![g] = SinkWriteErr]
    /\ pc' = [pc EXCEPT ![g] = pend[g].then]
    /\ UNCHANGED <<reqFrame, logbuf, depth, out, pend, ip, tstate, fired, done,
                   errSlot, ctxErr, crashed, hist>>

----------------------------------------------------------------------------
(* The terminal handler *)

\* The handler makes its next call on its ResponseWriter.
HandlerOp(g) ==
    /\ Runs(g) /\ pc[g] = "call" /\ Layer(depth[g]) = "handler"
    /\ ip <= Len(script)
    /\ IF script[ip].op = "hdr"
       THEN WriteHeader(g, "handler", script[ip].code)
       ELSE Write(g, "handler", DataBody)
    /\ ip' = ip + 1
    /\ UNCHANGED <<reqFrame, logbuf, pc, depth, out, pend, wres, tstate, fired, done,
                   errSlot, ctxErr, crashed, hist>>

\* The handler returns nil or an error, or panics.
HandlerEnd(g) ==
    /\ Runs(g) /\ pc[g] = "call" /\ Layer(depth[g]) = "handler"
    /\ ip > Len(script)
    /\ out' = [out EXCEPT ![g] = ending]
    /\ pc' = [pc EXCEPT ![g] = IF ending.kind = "panic" THEN "unwind" ELSE "adapter"]
    /\ UNCHANGED <<reqFrame, sink, wlog, logbuf, depth, pend, wres, ip, tstate, fired,
                   done, errSlot, capErr, ctxErr, crashed, hist>>

----------------------------------------------------------------------------
(* httpx.HandlerFunc.ServeHTTP: the adapter around every layer's function *)

\* if err := h(w, r); err != nil { err = InternalError(w, err) ... }
Adapter(g) ==
    /\ Runs(g) /\ pc[g] = "adapter"
    /\ IF out[g].kind = "err"
       THEN /\ pend' = [pend EXCEPT ![g] =
                           [code |-> StatusInternalServerError,
                            msg |-> ErrorMessage(InternalErrorMsg(out[g].err)),
                            who |-> "adapter", then |-> "adapterDone"]]
            /\ pc' = [pc EXCEPT ![g] = "jsonHdr"]
       ELSE /\ pc' = [pc EXCEPT ![g] = "return"]
            /\ pend' = pend
    /\ UNCHANGED <<reqFrame, sink, wlog, logbuf, depth, out, wres, ip, tstate, fired,
                   done, errSlot, capErr, ctxErr, crashed, hist>>

\* if err != nil { panic(err) }
AdapterDone(g) ==
    /\ Runs(g) /\ pc[g] = "adapterDone"
    /\ IF wres[g] # Nil
       THEN /\ out' = [out EXCEPT ![g] = PanicOut(ErrorValue(wres[g]))]
            /\ pc' = [pc EXCEPT ![g] = "unwind"]
       ELSE /\ out' = [out EXCEPT ![g] = NilOut]
            /\ pc' = [pc EXCEPT ![g] = "return"]
    /\ UNCHANGED <<reqFrame, sink, wlog, logbuf, depth, pend, wres, ip, tstate, fired,
                   done, errSlot, capErr, ctxErr, crashed, hist>>

----------------------------------------------------------------------------
(* middleware.Recovery *)

\* The Recovery layer installs its deferred function and calls next.ServeHTTP.
RecoveryEnter(g) ==
    /\ Runs(g) /\ pc[g] = "call" /\ Layer(depth[g]) = "recovery"
    /\ depth' = [depth EXCEPT ![g] = depth[g] + 1]
    /\ UNCHANGED <<reqFrame, sink, wlog, logbuf, pc, out, pend, wres, ip, tstate,
                   fired, done, errSlot, capErr, ctxErr, crashed, hist>>

\* A wrapper that logs every request it has passed on.
RecoveryReturnLogging(g) ==
    /\ Runs(g) /\ pc[g] = "return" /\ Layer(depth[g] - 1) = "recovery"
    /\ depth' = [depth EXCEPT ![g] = depth[g] - 1]
    /\ out' = [out EXCEPT ![g] = NilOut]
    /\ pc' = [pc EXCEPT ![g] = "adapter"]
    /\ logbuf' = Append(logbuf, [logger |-> logger, msg |-> <<"Completed">>])
    /\ UNCHANGED <<reqFrame, sink, wlog, pend, wres, ip, tstate, fired, done,
                   errSlot, capErr, ctxErr, crashed, hist>>

\* next.ServeHTTP returned: return nil.
RecoveryReturn(g) ==
    /\ Runs(g) /\ pc[g] = "return" /\ Layer(depth[g] - 1) = "recovery"
    /\ depth' = [depth EXCEPT ![g] = depth[g] - 1]
    /\ out' = [out EXCEPT ![g] = NilOut]
    /\ pc' = [pc EXCEPT ![g] = "adapter"]
    /\ UNCHANGED <<reqFrame, sink, wlog, logbuf, pend, wres, ip, tstate, fired, done,
                   errSlot, capErr, ctxErr, crashed, hist>>

\* Recovery(logger): a default logger is used when none is provided.
RecoveryLogger(l) == IF l = "nil" THEN "default" ELSE l

\* logger.Printf("recovered from panic: %v", err)
RecoveredEntry(l, err) ==
    [logger |-> RecoveryLogger(l), msg |-> <<"recovered from panic: ">> \o err]

\* logger.Printf("failed to write error response: %v", err)
WriteFailedEntry(l, err) ==
    [logger |-> RecoveryLogger(l), msg |-> <<"failed to write error response: ">> \o err]

\* A panic reaches the deferred function: recover, normalize, log, and begin
\* httpx.InternalError(w, err).
Recover(g) ==
    /\ Runs(g) /\ pc[g] = "unwind" /\ Layer(depth[g] - 1) = "recovery"
    /\ depth' = [depth EXCEPT ![g] = depth[g] - 1]
    /\ logbuf' = Append(logbuf, RecoveredEntry(logger, Normalize(out[g].val)))
    /\ pend' = [pend EXCEPT ![g] =
                    [code |-> StatusInternalServerError,
                     msg |-> ErrorMessage(InternalErrorMsg(Normalize(out[g].val))),
                     who |-> "recovery", then |-> "recoverDone"]]
    /\ out' = [out EXCEPT ![g] = NilOut]
    /\ pc' = [pc EXCEPT ![g] = "jsonHdr"]
    /\ UNCHANGED <<reqFrame, sink, wlog, wres, ip, tstate, fired, done, errSlot,
                   capErr, ctxErr, crashed, hist>>

\* if err != nil { logger.Printf("failed to write error response: %v", err) };
\* the function then returns its zero result.
RecoverDone(g) ==
    /\ Runs(g) /\ pc[g] = "recoverDone"
    /\ logbuf' = IF wres[g] # Nil
                  THEN Append(logbuf, WriteFailedEntry(logger, wres[g]))
                  ELSE logbuf
    /\ out' = [out EXCEPT ![g] = NilOut]
    /\ pc' = [pc EXCEPT ![g] = "adapter"]
    /\ UNCHANGED <<reqFrame, sink, wlog, depth, pend, wres, ip, tstate, fired, done,
                   errSlot, capErr, ctxErr, crashed, hist>>

----------------------------------------------------------------------------
(* The goroutine of WithTimeout after next.ServeHTTP *)

\* A goroutine that leaves err as it is.
GoroutineSkipErr ==
    /\ Runs("handler") /\ pc["handler"] = "return"
    /\ Layer(depth["handler"] - 1) = "timeout"
    /\ pc' = [pc EXCEPT !["handler"] = "send"]
    /\ UNCHANGED <<reqFrame, sink, wlog, logbuf, depth, out, pend, wres, ip, tstate,
                   fired, done, errSlot, capErr, ctxErr, crashed, hist>>

\* if respCapturer.Error() != nil { err = respCapturer.Error() }
GoroutineSetErr ==
    /\ Runs("handler") /\ pc["handler"] = "return"
    /\ Layer(depth["handler"] - 1) = "timeout"
    /\ errSlot' = IF capErr # Nil THEN capErr ELSE errSlot
    /\ pc' = [pc EXCEPT !["handler"] = "send"]
    /\ UNCHANGED <<reqFrame, sink, wlog, logbuf, depth, out, pend, wres, ip, tstate,
                   fired, done, capErr, ctxErr, crashed, hist>>

\* The goroutine function returns: the deferred send runs and the goroutine ends.
GoroutineExit ==
    /\ Runs("handler") /\ pc["handler"] = "send"
    /\ Send
    /\ pc' = AfterSend("exited")
    /\ UNCHANGED <<reqFrame, sink, wlog, logbuf, depth, out, pend, wres, ip, errSlot,
                   capErr, ctxErr, crashed>>

\* A panic leaves next.ServeHTTP in the goroutine: the deferred send runs, nothing
\* recovers, and the Go runtime ends the process.
GoroutinePanic ==
    /\ Runs("handler") /\ pc["handler"] = "unwind"
    /\ Layer(depth["handler"] - 1) = "timeout"
    /\ Send
    /\ pc' = AfterSend("panicked")
    /\ crashed' = TRUE
    /\ UNCHANGED <<reqFrame, sink, wlog, logbuf, depth, out, pend, wres, ip, errSlot,
                   capErr, ctxErr>>

----------------------------------------------------------------------------
(* The caller of the chain *)

\* The outermost ServeHTTP returns to its caller.
ReturnToCaller ==
    /\ Runs("main") /\ pc["main"] = "return" /\ Layer(depth["main"] - 1) = "caller"
    /\ pc' = [pc EXCEPT !["main"] = "returned"]
    /\ UNCHANGED <<reqFrame, sink, wlog, logbuf, depth, out, pend, wres, ip, tstate,
                   fired, done, errSlot, capErr, ctxErr, crashed, hist>>

\* A panic leaves the outermost ServeHTTP.
PanicToCaller ==
    /\ Runs("main") /\ pc["main"] = "unwind" /\ Layer(depth["main"] - 1) = "caller"
    /\ pc' = [pc EXCEPT !["main"] = "panicked"]
    /\ UNCHANGED <<reqFrame, sink, wlog, logbuf, depth, out, pend, wres, ip, tstate,
                   fired, done, errSlot, capErr, ctxErr, crashed, hist>>

----------------------------------------------------------------------------

Next ==
    \/ TimeoutStart
    \/ Select
    \/ Deadline
    \/ CompletionBranch
    \/ TimeoutBranch
    \/ TimeoutReturn
    \/ GoroutineSetErr
    \/ GoroutineExit
    \/ GoroutinePanic
    \/ ReturnToCaller
    \/ PanicToCaller
    \/ \E g \in G :
          \/ JSONHeader(g)
          \/ JSONBody(g)
          \/ HandlerOp(g)
          \/ HandlerEnd(g)
          \/ Adapter(g)
          \/ AdapterDone(g)
          \/ RecoveryEnter(g)
          \/ RecoveryReturn(g)
          \/ Recover(g)
          \/ RecoverDone(g)

Spec == Init /\ [][Next]_vars

\* Requests whose inbound context may be cancelled while they are served.
CancelNext == Next \/ InboundCancel

CancelSpec == Init /\ [][CancelNext]_vars

----------------------------------------------------------------------------
(* chainMiddleware *)

\* A handler is the sequence of its layers, outermost first, the terminal
\* handler last. mw(next): the handler that runs mw around next.
Wrap(mw, next) == <<mw>> \o next

Terminal(h) == <<h>>

\* The loop run from the first element to the last.
RECURSIVE chainForward(_, _, _)
chainForward(h, mws, i) ==
    IF i <= Len(mws) THEN chainForward(Wrap(mws[i], h), mws, i + 1) ELSE h

chainMiddlewareForward(h, mws) == chainForward(h, mws, 1)

\* for i := len(mws) - 1; i >= 0; i-- { h = mws[i](h) }
RECURSIVE chainLoop(_, _, _)
chainLoop(h, mws, i) ==
    IF i >= 1 THEN chainLoop(Wrap(mws[i], h), mws, i - 1) ELSE h

\* chainMiddleware(h, mws...)
chainMiddleware(h, mws) == chainLoop(h, mws, Len(mws))

\* What a request through handler h does: each middleware acts, calls next, and
\* acts again when next returns (as middleware.Logger does); the terminal
\* handler handles.
RECURSIVE ServeHTTP(_)
ServeHTTP(h) ==
    IF Len(h) = 1 THEN <<[ev |-> "handle", id |-> h[1]]>>
    ELSE <<[ev |-> "enter", id |-> h[1]]>> \o ServeHTTP(Tail(h))
            \o <<[ev |-> "exit", id |-> h[1]]>>

Handlers == {"h1", "h2"}
Middlewares == {"a", "b", "c"}
MwSeqs == UNION { [1..n -> Middlewares] : n \in 0..MaxMws }

CompInit ==
    /\ cH \in Handlers /\ cM1 \in MwSeqs /\ cM2 \in MwSeqs
    /\ cInner = <<>> /\ cNested = <<>> /\ cOnce = <<>> /\ cServed = <<>>

ChainInit == CompInit /\ ReqIdle /\ OtherIdle

\* inner := chainMiddleware(h, M2...)
ComposeInner ==
    /\ cInner = <<>>
    /\ cInner' = chainMiddleware(Terminal(cH), cM2)
    /\ UNCHANGED <<reqVars, otherVars, cH, cM1, cM2, cNested, cOnce, cServed>>

\* nested := chainMiddleware(inner, M1...)
ComposeNested ==
    /\ cInner # <<>> /\ cNested = <<>>
    /\ cNested' = chainMiddleware(cInner, cM1)
    /\ UNCHANGED <<reqVars, otherVars, cH, cM1, cM2, cInner, cOnce, cServed>>

\* once := chainMiddleware(h, append(M1, M2...)...)
ComposeOnce ==
    /\ cOnce = <<>>
    /\ cOnce' = chainMiddleware(Terminal(cH), cM1 \o cM2)
    /\ UNCHANGED <<reqVars, otherVars, cH, cM1, cM2, cInner, cNested, cServed>>

\* The composed handlers by name.
Composed(n) == IF n = "inner" THEN cInner ELSE IF n = "nested" THEN cNested ELSE cOnce

\* A request is served through a composed handler.
Serve ==
    /\ Len(cServed) < 3
    /\ \E n \in {"inner", "nested", "once"} :
          /\ Composed(n) # <<>>
          /\ \A i \in DOMAIN cServed : cServed[i].of # n
          /\ cServed' = Append(cServed, [of |-> n, trace |-> ServeHTTP(Composed(n))])
    /\ UNCHANGED <<reqVars, otherVars, cH, cM1, cM2, cInner, cNested, cOnce>>

ChainNext == ComposeInner \/ ComposeNested \/ ComposeOnce \/ Serve

ChainSpec == ChainInit /\ [][ChainNext]_vars

----------------------------------------------------------------------------
(* append on slices *)

\* The capacities the allocator has for a slice of func values (8 bytes each).
SizeClasses == <<1, 2, 3, 4, 6, 8, 10, 12, 14, 16>>

RoundUp(n) ==
    SizeClasses[CHOOSE i \in DOMAIN SizeClasses :
                    /\ SizeClasses[i] >= n
                    /\ \A j \in 1..(i - 1) : SizeClasses[j] < n]

\* The capacity append gives the new array when the old one is too small.
GrowCap(oldCap, newLen) ==
    RoundUp(IF newLen > 2 * oldCap THEN newLen ELSE 2 * oldCap)

\* append(s, elems...): the elements are written after s's last element, in
\* s's own backing array when its capacity allows, else in a new array that
\* starts as a copy. Yields the heap and the slice returned.
append(h, s, elems) ==
    LET n == s.len + Len(elems) IN
    IF elems = <<>> THEN [heap |-> h, slice |-> s]
    ELSE IF n <= s.cap THEN
        [heap |-> [h EXCEPT ![s.arr] =
                      [i \in 1..s.cap |->
                          IF i > s.len /\ i <= n THEN elems[i - s.len] ELSE @[i]]],
         slice |-> [s EXCEPT !.len = n]]
    ELSE
        LET c == GrowCap(s.cap, n) IN
        [heap |-> Append(h, [i \in 1..c |->
                                IF i <= s.len THEN h[s.arr][i]
                                ELSE IF i <= n THEN elems[i - s.len] ELSE ""]),
         slice |-> [arr |-> Len(h) + 1, len |-> n, cap |-> c]]

\* The slice a variadic parameter mws receives for the arguments elems: nil
\* for none, else a new array that holds exactly the arguments.
Variadic(h, elems) ==
    IF elems = <<>> THEN [heap |-> h, slice |-> NilSlice]
    ELSE [heap |-> Append(h, elems),
          slice |-> [arr |-> Len(h) + 1, len |-> Len(elems), cap |-> Len(elems)]]

----------------------------------------------------------------------------
(* vibe.New and its options *)

WithoutRecovery == [name |-> "WithoutRecovery", d |-> 0]
WithoutTimeout == [name |-> "WithoutTimeout", d |-> 0]
WithTimeout(duration) == [name |-> "WithTimeout", d |-> duration]

RouterOption ==
    {WithoutRecovery, WithoutTimeout} \cup {WithTimeout(d) : d \in 1..MaxDuration}

\* Options of which WithTimeout also switches the timeout back on.
ApplyReenabling(o, r) ==
    IF o.name = "WithoutRecovery" THEN [r EXCEPT !.disableRecovery = TRUE]
    ELSE IF o.name = "WithoutTimeout" THEN [r EXCEPT !.disableTimeout = TRUE]
    ELSE [r EXCEPT !.timeout = o.d, !.disableTimeout = FALSE]

\* option(router)
Apply(o, r) ==
    IF o.name = "WithoutRecovery" THEN [r EXCEPT !.disableRecovery = TRUE]
    ELSE IF o.name = "WithoutTimeout" THEN [r EXCEPT !.disableTimeout = TRUE]
    ELSE [r EXCEPT !.timeout = o.d]

\* for _, option := range options { option(router) }
RECURSIVE ApplyAll(_, _, _)
ApplyAll(opts, i, r) ==
    IF i <= Len(opts) THEN ApplyAll(opts, i + 1, Apply(opts[i], r)) ELSE r

\* A Use that forgets the middleware.
UseDropped(h, r, mw) == [heap |-> h, router |-> r]

\* r.middlewares = append(r.middlewares, mw), on heap h and router r.
Use(h, r, mw) ==
    LET a == append(h, r.middlewares, <<mw>>) IN
    [heap |-> a.heap, router |-> [r EXCEPT !.middlewares = a.slice]]

\* The body of vibe.New(opts...) on heap h: the heap and the router it leaves.
NewResult(h, opts) ==
    LET r0 == ApplyAll(opts, 1, NewRouter)
        u1 == IF ~r0.disableRecovery THEN Use(h, r0, "recovery")
              ELSE [heap |-> h, router |-> r0]
    IN IF ~r0.disableTimeout THEN Use(u1.heap, u1.router, "timeout") ELSE u1

\* router := vibe.New(options...)
vibeNew ==
    /\ newPc.at = "call"
    /\ LET u == NewResult(heap, options)
       IN /\ heap' = u.heap
          /\ router' = u.router
          /\ used' = Elems(u.heap, u.router.middlewares)
    /\ newPc' = [at |-> "done", i |-> 0]
    /\ UNCHANGED <<routerFrame, options, variant, groups, mux, fresh, served>>

----------------------------------------------------------------------------
(* Router and Group *)

Methods == {"GET", "POST"}
ReqMethods == Methods \cup {"HEAD", "OPTIONS"}

\* Paths are sequences of segments: <<"api", "users">> is /api/users and the
\* empty sequence, as a request path, is the root path /.
\* The prefixes the groups are created with, in order of creation.
GroupPrefixes == << <<"api">>, <<"v1">> >>

\* The handlers the routes are registered with, in order of registration.
RouteHandlers == <<"h1", "h2">>

\* The middleware values given to the router and its groups after vibe.New,
\* each given once, in this order.
MwValues == <<"m1", "m2", "m3", "m4", "m5">>
Patterns == {<<"users">>}

\* The next n middleware values, none of them given to the router before.
FreshMws(n) == SubSeq(MwValues, fresh + 1, fresh + n)

Built == newPc.at = "done"

Routes == {e \in mux : e.kind = "route"}

\* func (r *Router) Use(mw MiddlewareFunc)
RouterUse ==
    /\ Built /\ fresh < Len(MwValues)
    /\ LET u == Use(heap, router, FreshMws(1)[1]) IN
          /\ heap' = u.heap /\ router' = u.router
    /\ used' = Append(used, FreshMws(1)[1])
    /\ fresh' = fresh + 1
    /\ UNCHANGED <<routerFrame, options, newPc, variant, groups, mux, served>>

\* func (r *Router) Group(prefix string, mws ...MiddlewareFunc) *Group
RouterGroup(counts) ==
    /\ Built /\ Len(groups) < Len(GroupPrefixes)
    /\ \E prefix \in {GroupPrefixes[Len(groups) + 1]}, n \in counts :
          /\ fresh + n <= Len(MwValues)
          /\ LET v == Variadic(heap, FreshMws(n)) IN
                /\ heap' = v.heap
                /\ groups' = Append(groups,
                      [prefix |-> prefix, middleware |-> v.slice, parent |-> 0,
                       given |-> <<prefix>>, want |-> FreshMws(n)])
          /\ fresh' = fresh + n
    /\ UNCHANGED <<routerFrame, options, newPc, router, variant, mux, used, served>>

\* func (g *Group) Use(mw MiddlewareFunc) *Group
GroupUse ==
    /\ Built /\ fresh < Len(MwValues)
    /\ \E g \in DOMAIN groups :
          LET a == append(heap, groups[g].middleware, FreshMws(1)) IN
          /\ heap' = a.heap
          /\ groups' = [groups EXCEPT ![g].middleware = a.slice,
                                      ![g].want = @ \o FreshMws(1)]
    /\ fresh' = fresh + 1
    /\ UNCHANGED <<routerFrame, options, newPc, router, variant, mux, used, served>>

\* func (g *Group) Group(prefix string, mws ...MiddlewareFunc) *Group
GroupGroup(counts) ==
    /\ Built /\ Len(groups) < Len(GroupPrefixes)
    /\ \E g \in DOMAIN groups, prefix \in {GroupPrefixes[Len(groups) + 1]}, n \in counts :
          /\ fresh + n <= Len(MwValues)
          /\ LET fullPrefix == groups[g].prefix \o prefix
                 a == append(heap, groups[g].middleware, FreshMws(n))
             IN /\ heap' = a.heap
                /\ groups' = Append(groups,
                      [prefix |-> fullPrefix, middleware |-> a.slice, parent |-> g,
                       given |-> groups[g].given \o <<prefix>>,
                       want |-> groups[g].want \o FreshMws(n)])
          /\ fresh' = fresh + n
    /\ UNCHANGED <<routerFrame, options, newPc, router, variant, mux, used, served>>

\* The handler of the next route registered.
NextHandler == RouteHandlers[Cardinality(Routes) + 1]

\* Two patterns the multiplexer refuses to hold together.
Conflicts(method, path) == \E e \in Routes : e.method = method /\ e.path = path

\* func (r *Router) registerRoute(method, pattern, handler, mws...), called
\* with heap h; g, pattern0 and want say how the route was asked for: through
\* which group, under which relative pattern and with which middleware.
registerRoute(h, method, pattern, mws, g, pattern0, want) ==
    LET a == append(h, router.middlewares, mws)
        chainedHandler == chainMiddleware(Terminal(NextHandler), Elems(a.heap, a.slice))
    IN /\ ~Conflicts(method, pattern)
       /\ heap' = a.heap
       /\ mux' = mux \cup
             {[kind |-> "route", method |-> method, path |-> pattern,
               handler |-> chainedHandler, guard |-> (variant = "func"),
               group |-> g, pattern |-> pattern0,
               want |-> Elems(heap, router.middlewares) \o want,
               usedAt |-> Len(used)]}

\* func (r *Router) Get(pattern, handler, mws...), Post, Put, ...
RouterHandle(methods, counts) ==
    /\ Built /\ Cardinality(Routes) < Len(RouteHandlers)
    /\ \E method \in methods, pattern \in Patterns, n \in counts :
          /\ fresh + n <= Len(MwValues)
          /\ registerRoute(heap, method, pattern, FreshMws(n), 0, pattern, FreshMws(n))
          /\ fresh' = fresh + n
    /\ UNCHANGED <<routerFrame, options, newPc, router, variant, groups, used, served>>

\* A full path that forgets the group's prefix.
FullPathBare(prefix, pattern) == pattern

\* fullPath := g.prefix + pattern
FullPath(prefix, pattern) == prefix \o pattern

\* func (g *Group) Get(pattern, handler, mws...), Post, Put, ...
GroupHandle(methods, counts) ==
    /\ Built /\ Cardinality(Routes) < Len(RouteHandlers)
    /\ \E g \in DOMAIN groups, method \in methods, pattern \in Patterns, n \in counts :
          /\ fresh + n <= Len(MwValues)
          /\ LET fullPath == FullPath(groups[g].prefix, pattern)
                 a == append(heap, groups[g].middleware, FreshMws(n))
             IN registerRoute(a.heap, method, fullPath, Elems(a.heap, a.slice), g,
                              pattern, groups[g].want \o FreshMws(n))
          /\ fresh' = fresh + n
    /\ UNCHANGED <<routerFrame, options, newPc, router, variant, groups, used, served>>

\* func (r *Router) NotFound(handler httpx.HandlerFunc)
NotFound ==
    /\ Built
    /\ \A e \in mux : e.kind # "notfound"
    /\ LET chainedHandler ==
              chainMiddleware(Terminal("nf"), Elems(heap, router.middlewares))
       IN mux' = mux \cup
             {[kind |-> "notfound", method |-> "", path |-> <<>>,
               handler |-> chainedHandler, guard |-> (variant = "func"),
               group |-> 0, pattern |-> <<>>,
               want |-> Elems(heap, router.middlewares), usedAt |-> Len(used)]}
    /\ UNCHANGED <<routerFrame, heap, options, newPc, router, variant, groups,
                   fresh, used, served>>

----------------------------------------------------------------------------
(* Serving a request through the router *)

\* The multiplexer: a pattern with a method matches requests of that method
\* (GET also those of HEAD); the pattern / matches every request and gives way
\* to any other pattern that matches.
Matches(e, method, path) ==
    /\ e.kind = "route" /\ e.path = path
    /\ (e.method = method \/ (e.method = "GET" /\ method = "HEAD"))

\* The terminal handler of a composed handler.
TerminalOf(h) == h[Len(h)]

\* The response to a request, with the number of bindings the multiplexer
\* had when it was served.
Response(method, path, status, body, trace, handler) ==
    [method |-> method, path |-> path, status |-> status, body |-> body,
     trace |-> trace, handler |-> handler, bindings |-> Cardinality(mux)]

\* A binding that composes its chain when the request arrives, from the
\* router's global middleware as it is then.
RunChainLive(e, method, path) ==
    Response(method, path,
             IF e.kind = "notfound" THEN StatusNotFound ELSE StatusOK,
             TerminalOf(e.handler),
             ServeHTTP(chainMiddleware(Terminal(TerminalOf(e.handler)),
                                       Elems(heap, router.middlewares))),
             TerminalOf(e.handler))

\* The chain runs: every middleware passes the request on and the terminal
\* handler answers, a route's handler with 200 and the not-found handler with
\* 404, both with a body of their own.
RunChain(e, method, path) ==
    Response(method, path,
             IF e.kind = "notfound" THEN StatusNotFound ELSE StatusOK,
             TerminalOf(e.handler), ServeHTTP(e.handler), TerminalOf(e.handler))

\* The function registerRoute binds: in the variant of package vibe whose
\* handlers are plain functions it looks at the method before the chain.
RouteFunc(e, method, path) ==
    IF e.guard /\ method # e.method THEN
        IF e.method # "GET" /\ method = "OPTIONS"
        THEN Response(method, path, StatusOK, "", <<>>, "")
        ELSE Response(method, path, StatusMethodNotAllowed, "Method not allowed", <<>>, "")
    ELSE RunChain(e, method, path)

\* The function NotFound binds to the pattern /.
NotFoundFunc(e, method, path) ==
    IF path # <<>> THEN RunChain(e, method, path)
    ELSE Response(method, path, StatusOK, "", <<>>, "")

\* r.mux.ServeHTTP(w, req)
MuxServe(method, path) ==
    IF \E e \in mux : Matches(e, method, path)
    THEN RouteFunc(CHOOSE e \in mux : Matches(e, method, path), method, path)
    ELSE IF \E e \in mux : e.kind = "notfound"
    THEN NotFoundFunc(CHOOSE e \in mux : e.kind = "notfound", method, path)
    ELSE IF \E e \in Routes : e.path = path
    THEN Response(method, path, StatusMethodNotAllowed, "Method Not Allowed", <<>>, "")
    ELSE Response(method, path, StatusNotFound, "404 page not found", <<>>, "")

\* The suffixes of a path.
Suffixes(path) == {SubSeq(path, i, Len(path)) : i \in 1..(Len(path) + 1)}

\* The paths requested: those registered, what is left of them without their
\* leading segments, the root path and a path never registered.
ReqPaths == UNION {Suffixes(e.path) : e \in Routes} \cup {<<>>, <<"missing">>}

\* The paths some route is registered under.
RoutePaths == {e.path : e \in Routes}

\* func (r *Router) ServeHTTP(w http.ResponseWriter, req *http.Request)
RouterServeHTTP(methods, paths) ==
    /\ Built
    /\ \E method \in methods, path \in paths :
          served' = MuxServe(method, path)
    /\ UNCHANGED <<routerFrame, heap, options, newPc, router, variant, groups,
                   mux, fresh, used>>

\* A router is about to be built with options opts, as vibe.New(opts...).
RouterInit(variants, opts) ==
    /\ heap = <<>>
    /\ options \in opts
    /\ newPc = [at |-> "call", i |-> 0]
    /\ router = NewRouter
    /\ variant \in variants
    /\ groups = <<>> /\ mux = {} /\ fresh = 0 /\ used = <<>>
    /\ served = NoRequest

\* Routers, groups and routes with middleware of their own, serving GET.
GroupInit == RouterInit({"handler"}, {<<>>}) /\ ReqIdle /\ CompIdle /\ CapturerIdle /\ ConcIdle

GroupNext ==
    \/ vibeNew \/ RouterUse \/ GroupUse
    \/ RouterGroup(0..MaxArgs) \/ GroupGroup(0..MaxArgs)
    \/ RouterHandle({"GET"}, 0..1) \/ GroupHandle({"GET"}, 0..1)
    \/ RouterServeHTTP({"GET"}, RoutePaths)

GroupSpec == GroupInit /\ [][GroupNext]_vars

\* Routers, groups and routes without middleware of their own, serving every
\* method.
MuxInit == RouterInit({"handler", "func"}, {<<>>}) /\ ReqIdle /\ CompIdle /\ CapturerIdle /\ ConcIdle

MuxNext ==
    \/ vibeNew
    \/ RouterGroup({0}) \/ GroupGroup({0})
    \/ RouterHandle(Methods, {0}) \/ GroupHandle(Methods, {0})
    \/ NotFound
    \/ RouterServeHTTP(ReqMethods, ReqPaths)

MuxSpec == MuxInit /\ [][MuxNext]_vars

\* Routers built with every choice of options, with one route, serving GET.
OptionSeqs == UNION {[1..n -> RouterOption] : n \in 0..MaxOptions}

OptionInit == RouterInit({"handler"}, OptionSeqs) /\ ReqIdle /\ CompIdle /\ CapturerIdle /\ ConcIdle

OptionNext ==
    \/ vibeNew
    \/ RouterHandle({"GET"}, {0})
    \/ RouterServeHTTP({"GET"}, RoutePaths)

OptionSpec == OptionInit /\ [][OptionNext]_vars

----------------------------------------------------------------------------
(* A ResponseCapturer used on its own *)

\* The status codes given to WriteHeader: both sides of the threshold.
Codes == {StatusOK, StatusBadRequest - 1, StatusBadRequest, StatusInternalServerError}

\* The number of bytes Write reports: all of them, and none on the
\* errorResponseWriter.
SinkWriteN(chunk) == IF sinkFails THEN 0 ELSE Len(chunk.msg)

\* ResponseCapturer.Write: return n, err
CapturerReturn(n, err) == [n |-> n, err |-> err]

Call(op, code, ret, under) == [op |-> op, code |-> code, ret |-> ret, under |-> under]

NoReturn == [n |-> 0, err |-> Nil]

\* What changes when a capturer is used on its own.
capturerFrame ==
    <<chain, script, ending, timeout, logger, logbuf, pc, depth, out, pend, wres, ip,
      tstate, fired, done, errSlot, ctxErr, crashed, hist, compVars, routerVars,
      concVars>>

\* capturer := middleware.NewResponseCapturer(w), w a recorder or an
\* errorResponseWriter.
NewResponseCapturer ==
    /\ rcCalls = <<>>
    /\ sinkFails' \in BOOLEAN
    /\ rcCalls' = <<Call("new", 0, NoReturn, NoReturn)>>
    /\ UNCHANGED <<capturerFrame, sink, wlog, capErr>>

\* capturer.WriteHeader(code)
CapturerCallWriteHeader ==
    /\ rcCalls # <<>> /\ Len(rcCalls) <= MaxCalls
    /\ \E code \in Codes :
          /\ WriteHeader("handler", "caller", code)
          /\ rcCalls' = Append(rcCalls, Call("hdr", code, NoReturn, NoReturn))
    /\ UNCHANGED <<capturerFrame, sinkFails>>

\* n, err := capturer.Write(b)
CapturerCallWrite ==
    /\ rcCalls # <<>> /\ Len(rcCalls) <= MaxCalls
    /\ Write("handler", "caller", DataBody)
    /\ LET under == [n |-> SinkWriteN(DataBody), err |-> SinkWriteErr] IN
          rcCalls' = Append(rcCalls, Call("write", 0, CapturerReturn(under.n, under.err), under))
    /\ UNCHANGED <<capturerFrame, sinkFails>>

CapturerNext == NewResponseCapturer \/ CapturerCallWriteHeader \/ CapturerCallWrite

\* No capturer is made yet and nothing else runs.
CapturerInit == ReqIdle /\ CompIdle /\ OtherIdle

CapturerSpec == CapturerInit /\ [][CapturerNext]_vars

----------------------------------------------------------------------------
(* Concurrent requests through one handler wrapped by WithTimeout *)

\* One channel for every request: all invocations share it.
MakeChanShared(chs) == 1

\* done := make(chan struct{}, 1): the channel made after those of chs.
MakeChan(chs) == Len(chs) + 1

Requests == 1..MaxRequests

\* A request about to enter the wrapper: the positions of the controlling flow
\* (main) and of the goroutine, and the locals of the invocation.
ConcRequest ==
    [main |-> "call", handler |-> "none", ch |-> 0, ctx |-> "none", err |-> Nil,
     capErr |-> Nil, taken |-> "none", sink |-> [status |-> 0, body |-> <<>>],
     writers |-> <<>>, sigLive |-> FALSE, result |-> Nil]

\* wrapped.ServeHTTP(w, req) is about to be called MaxRequests times at once,
\* with a positive duration.
ConcInit ==
    /\ conc = [i \in Requests |-> ConcRequest]
    /\ chans = <<>>
    /\ ReqIdle /\ CompIdle /\ RouterIdle /\ CapturerIdle

concFrame == <<reqVars, compVars, routerVars, capVars>>

\* WithTimeout up to the select, for request i.
ConcStart(i) ==
    /\ conc[i].main = "call"
    /\ chans' = Append(chans, 0)
    /\ conc' = [conc EXCEPT ![i].main = "select", ![i].handler = "call",
                            ![i].ch = MakeChan(chans), ![i].ctx = "none"]
    /\ UNCHANGED concFrame

\* The handler of request i: w.WriteHeader(http.StatusOK); return nil, on the
\* capturer of its own invocation.
ConcHandler(i) ==
    /\ conc[i].handler = "call"
    /\ conc' = [conc EXCEPT
                   ![i].sink = SinkWriteHeader(@, StatusOK),
                   ![i].capErr = CapturerWriteHeader(@, StatusOK),
                   ![i].writers = Append(@, [req |-> i, who |-> "handler"]),
                   ![i].handler = "return"]
    /\ UNCHANGED <<concFrame, chans>>

\* if respCapturer.Error() != nil { err = respCapturer.Error() }
ConcSetErr(i) ==
    /\ conc[i].handler = "return"
    /\ conc' = [conc EXCEPT ![i].err = IF conc[i].capErr # Nil THEN conc[i].capErr ELSE @,
                            ![i].handler = "send"]
    /\ UNCHANGED <<concFrame, chans>>

\* The requests whose controlling flow is blocked in a select on channel c.
Receivers(c) == {j \in Requests : conc[j].ch = c /\ Waiting(conc[j].main)}

\* The deferred  done <- struct{}{}  of request i's goroutine: a select blocked
\* on the channel receives the value at once, otherwise it is buffered (the
\* send blocks while the buffer is full).
ConcExit(i) ==
    /\ conc[i].handler = "send"
    /\ LET c == conc[i].ch IN
       IF Receivers(c) # {}
       THEN \E j \in Receivers(c) :
               /\ conc' = [k \in Requests |->
                             LET r1 == IF k = i
                                       THEN [conc[k] EXCEPT !.handler = "exited",
                                                            !.sigLive = (conc[i].ctx = "none")]
                                       ELSE conc[k]
                             IN IF k = j
                                THEN [r1 EXCEPT !.main = BranchPc("completed"),
                                                !.taken = "completed"]
                                ELSE r1]
               /\ UNCHANGED chans
       ELSE /\ chans[c] < 1
            /\ chans' = [chans EXCEPT ![c] = @ + 1]
            /\ conc' = [conc EXCEPT ![i].handler = "exited",
                                    ![i].sigLive = (conc[i].ctx = "none")]
    /\ UNCHANGED concFrame

\* The deadline of request i's context elapses.
ConcDeadline(i) ==
    /\ conc[i].main \notin {"call", "returned"} /\ conc[i].ctx = "none"
    /\ conc' = IF Waiting(conc[i].main)
               THEN [conc EXCEPT ![i].ctx = "deadline", ![i].taken = "timed-out",
                                 ![i].main = BranchPc("timed-out")]
               ELSE [conc EXCEPT ![i].ctx = "deadline"]
    /\ UNCHANGED <<concFrame, chans>>

\* The controlling flow of request i reaches the select.
ConcSelect(i) ==
    /\ conc[i].main = "select"
    /\ LET c == conc[i].ch IN
       IF Ready(chans[c], conc[i].ctx) = {}
       THEN /\ conc' = [conc EXCEPT ![i].main = "parked"]
            /\ UNCHANGED chans
       ELSE \E b \in Ready(chans[c], conc[i].ctx) :
               /\ conc' = [conc EXCEPT ![i].main = BranchPc(b), ![i].taken = b]
               /\ chans' = IF b = "completed" THEN [chans EXCEPT ![c] = @ - 1] ELSE chans
    /\ UNCHANGED concFrame

\* case <-done: return err; the deferred cancel() runs.
ConcCompletion(i) ==
    /\ conc[i].main = "gotDone"
    /\ conc' = [conc EXCEPT ![i].result = conc[i].err,
                            ![i].ctx = IF @ = "none" THEN "canceled" ELSE @,
                            ![i].main = "returned"]
    /\ UNCHANGED <<concFrame, chans>>

\* case <-ctx.Done(): httpx.Error writes the status on request i's own w.
ConcTimeoutHeader(i) ==
    /\ conc[i].main = "gotTimeout"
    /\ conc' = [conc EXCEPT
                   ![i].sink = SinkWriteHeader(@, TimeoutResponse.code),
                   ![i].writers = Append(@, [req |-> i, who |-> "timeout"]),
                   ![i].main = "jsonBody"]
    /\ UNCHANGED <<concFrame, chans>>

\* httpx.Error writes the body and the wrapper returns.
ConcTimeoutBody(i) ==
    /\ conc[i].main = "jsonBody"
    /\ conc' = [conc EXCEPT
                   ![i].sink = SinkWrite(@, ErrorBody(TimeoutResponse.msg)),
                   ![i].writers = Append(@, [req |-> i, who |-> "timeout"]),
                   ![i].result = SinkWriteErr,
                   ![i].main = "returned"]
    /\ UNCHANGED <<concFrame, chans>>

ConcNext ==
    \E i \in Requests :
        \/ ConcStart(i) \/ ConcHandler(i) \/ ConcSetErr(i) \/ ConcExit(i)
        \/ ConcDeadline(i) \/ ConcSelect(i) \/ ConcCompletion(i)
        \/ ConcTimeoutHeader(i) \/ ConcTimeoutBody(i)

ConcSpec == ConcInit /\ [][ConcNext]_vars

----------------------------------------------------------------------------
(* Derived state used by the properties *)

Range(f) == {f[i] : i \in DOMAIN f}

MainEnded == pc["main"] \in {"returned", "panicked"}

\* The calls on the sink made by the wrappers named in who.
CallsBy(who) == {i \in DOMAIN wlog : wlog[i].who \in who}

\* The JSON error responses the framework began: their WriteHeader calls.
Framework == {"adapter", "recovery", "timeout"}
ErrorResponses == {i \in CallsBy(Framework) : wlog[i].op = "hdr"}

\* The timeout branch has written its whole response.
TimeoutWritten == \E i \in CallsBy({"timeout"}) : wlog[i].op = "write"

\* The function WithTimeout returns has returned to its caller (the adapter).
WrapperReturned ==
    /\ tstate \in {"completed", "timed-out"}
    /\ pc["main"] \notin {"gotDone", "gotTimeout", "timeoutDone"}
    /\ ~(pc["main"] \in {"jsonHdr", "jsonBody"} /\ pend["main"].who = "timeout")

----------------------------------------------------------------------------
(* C1 *)

\* C1: the timeout wrapper is a one-shot race. Its state starts running when the
\* goroutine is started, moves at most once, to completed or to timed-out, and
\* never changes afterwards; the select takes at most one branch per invocation
\* and the timeout response is written only in state timed-out.
C1_OneShotRace ==
    [][ /\ (tstate = "none" => tstate' \in {"none", "running"})
        /\ (tstate = "running" => tstate' \in {"running", "completed", "timed-out"})
        /\ (tstate \in {"completed", "timed-out"} => tstate' = tstate)
        /\ Len(fired') <= 1
        /\ (tstate' \in {"completed", "timed-out"} <=> fired' = <<tstate'>>)
        /\ (CallsBy({"timeout"})' # {} => tstate' = "timed-out") ]_vars

\* The timeout branch was taken, the abandoned handler signalled afterwards, and
\* the invocation returned in state timed-out.
C1_Witness ==
    tstate = "timed-out" /\ hist.signalled /\ done = 1 /\ pc["main"] = "returned"

----------------------------------------------------------------------------
(* C2 *)

\* C2 as stated: whenever the deadline elapses before the handler signals
\* completion, the response has status 408 and the body {"error":"request timed
\* out"}, whatever the handler does before or after the deadline.
C2_DeadlineFirstGives408 ==
    (hist.deadlineBeforeSig /\ ~sinkFails /\ pc["main"] = "returned")
        => /\ sink.status = StatusRequestTimeout
           /\ ErrorBody(TimedOutErr) \in Range(sink.body)

\* C2 amended: a deadline that elapses while the controlling flow is blocked in
\* the select, before any completion signal, always takes the timeout branch;
\* once the timeout branch has written its response to a working sink the body
\* holds {"error":"request timed out"}, and the status is 408 when that write was
\* the first call on the sink (a status the handler wrote earlier stands).
C2_TimeoutBranchWrites408 ==
    /\ (hist.parkedAtDeadline => tstate = "timed-out")
    /\ (tstate = "timed-out" /\ TimeoutWritten /\ ~sinkFails)
          => /\ ErrorBody(TimedOutErr) \in Range(sink.body)
             /\ (wlog[1].who = "timeout" => sink.status = StatusRequestTimeout)
             /\ (wlog[1].who # "timeout" => sink.status # StatusRequestTimeout)

\* The deadline woke the blocked select, the handler had written nothing, and
\* the client got 408 with the timeout body.
C2_Witness ==
    /\ hist.parkedAtDeadline /\ pc["main"] = "returned"
    /\ sink.status = StatusRequestTimeout
    /\ sink.body = <<ErrorBody(TimedOutErr)>>

----------------------------------------------------------------------------
(* C3 *)

\* The scheduling the Go runtime guarantees: the controlling flow keeps running
\* and the timer of the derived context fires. Nothing makes the handler
\* goroutine progress: a handler may block forever.
MainStep ==
    \/ TimeoutStart \/ Select \/ CompletionBranch \/ TimeoutBranch \/ TimeoutReturn
    \/ ReturnToCaller \/ PanicToCaller
    \/ JSONHeader("main") \/ JSONBody("main") \/ HandlerOp("main")
    \/ HandlerEnd("main") \/ Adapter("main") \/ AdapterDone("main")
    \/ RecoveryEnter("main") \/ RecoveryReturn("main") \/ Recover("main")
    \/ RecoverDone("main")

LiveSpec == Spec /\ WF_vars(MainStep) /\ WF_vars(Deadline)

\* C3 as stated: for a finite (positive or not) timeout, every invocation of the
\* timeout wrapper eventually returns to its caller, without waiting for the
\* handler goroutine.
C3_WrapperReturns == (tstate = "running") ~> WrapperReturned

----------------------------------------------------------------------------
(* C4 *)

\* C4 as stated: if the handler finishes (nil or error) and signals completion
\* before the deadline elapses, the wrapper takes the completion branch and no
\* timeout response is written.
C4_FinishedFirstCompletes ==
    (hist.sigBeforeDeadline /\ ending.kind # "panic"
        /\ tstate \in {"completed", "timed-out"})
        => tstate = "completed" /\ CallsBy({"timeout"}) = {}

\* C4 amended: if the completion signal reaches the select while the context is
\* still live (the handler signals while the controlling flow is blocked in the
\* select, or the controlling flow finds only the completion signal ready), the
\* wrapper takes the completion branch, writes no timeout response, and the
\* status the client sees is never the timeout status.
C4_SignalSeenFirstCompletes ==
    (ending.kind # "panic" /\ (hist.parkedAtSig \/ (hist.sawDone /\ ~hist.sawCtx)))
        => /\ tstate = "completed"
           /\ CallsBy({"timeout"}) = {}
           /\ sink.status # StatusRequestTimeout

\* The handler wrote 200 and a body and signalled the blocked select; the
\* invocation returned on the completion branch with the handler's response.
C4_Witness ==
    /\ hist.parkedAtSig /\ ending.kind = "nil" /\ pc["main"] = "returned"
    /\ tstate = "completed"
    /\ sink = [status |-> StatusOK, body |-> <<DataBody>>]

----------------------------------------------------------------------------
(* C5 *)

\* The log entries that contain msg.
LogEntriesWith(msg) == {i \in DOMAIN logbuf : Contains(logbuf[i].msg, msg)}

\* C5 as stated: on the router vibe.New() builds (recovery and timeout
\* installed), a panic of the terminal handler is recovered: the process keeps
\* running, no panic reaches the caller of ServeHTTP, and once served the
\* request has a logged panic and a 500 error response.
C5_DefaultRouterRecoversPanic ==
    (chain = DefaultChain /\ ending.kind = "panic")
        => /\ ~crashed
           /\ pc["main"] # "panicked"
           /\ (pc["main"] = "returned" /\ ~sinkFails /\ hist.signalled)
                 => /\ LogEntriesWith(Normalize(ending.val)) # {}
                    /\ CallsBy({"recovery"}) # {}

----------------------------------------------------------------------------
(* C6 *)

\* C6 as stated: a handler wrapped directly by Recovery that panics with v
\* yields one log entry with the normalized message, a 500 response whose JSON
\* error body contains the message, and a normal return.
C6_RecoveryAnswers500 ==
    (chain = <<"recovery">> /\ ending.kind = "panic" /\ MainEnded /\ ~sinkFails)
        => /\ pc["main"] = "returned"
           /\ Cardinality(LogEntriesWith(Normalize(ending.val))) = 1
           /\ sink.status = StatusInternalServerError
           /\ \E i \in DOMAIN sink.body :
                 /\ sink.body[i].kind = "error"
                 /\ Contains(sink.body[i].msg, Normalize(ending.val))

\* C6 amended: a handler wrapped directly by Recovery that panics with v makes
\* the wrapper return normally with exactly one log entry, "recovered from
\* panic: " and v normalized (v's message if v is an error, else its formatted
\* text), on the given logger or the default one for nil; on a working sink the
\* body ends with {"error":"internal server error: <message>"}, and the status is
\* 500 provided the handler had written nothing before it panicked (a status the
\* handler wrote first stands).
C6_RecoveryLogsAndAnswers ==
    (chain = <<"recovery">> /\ ending.kind = "panic" /\ MainEnded)
        => /\ pc["main"] = "returned"
           /\ LogEntriesWith(Normalize(ending.val)) = {1}
           /\ logbuf[1] = [logger |-> IF logger = "nil" THEN "default" ELSE logger,
                            msg |-> <<"recovered from panic: ">> \o
                                      (IF ending.val.type = "error" THEN ending.val.err
                                       ELSE IF ending.val.type = "string"
                                       THEN <<ending.val.str>>
                                       ELSE <<ToString(ending.val.num)>>)]
           /\ ~sinkFails =>
                 /\ sink.body[Len(sink.body)] =
                       ErrorBody(<<"internal server error: ">> \o Normalize(ending.val))
                 /\ (script = <<>> => sink.status = StatusInternalServerError)
                 /\ Cardinality(ErrorResponses) = 1

\* A handler that wrote nothing panicked with the int 42 under a nil logger: the
\* default logger has the entry and the client a 500 with the message "42".
C6_Witness ==
    /\ chain = <<"recovery">> /\ ending = PanicOut(IntValue(42)) /\ logger = "nil"
    /\ pc["main"] = "returned"
    /\ logbuf = <<[logger |-> "default", msg |-> <<"recovered from panic: ", "42">>]>>
    /\ sink = [status |-> StatusInternalServerError,
               body |-> <<ErrorBody(<<"internal server error: ", "42">>)>>]

----------------------------------------------------------------------------
(* C7 *)

\* C7 as stated: a request that does not take the timeout branch is answered
\* with at most one error response from the framework (adapter, timeout
\* wrapper, recovery wrapper) on a working sink.
C7_OneErrorResponse ==
    (tstate # "timed-out" /\ ~sinkFails) => Cardinality(ErrorResponses) <= 1

----------------------------------------------------------------------------
(* C8 *)

\* The request was served through the timeout middleware alone or through the
\* default router, its handler returned an error and signalled completion
\* before the deadline, and the controlling flow has returned.
ErrorServedInTime ==
    /\ chain \in {<<"timeout">>, DefaultChain}
    /\ ending.kind = "err" /\ hist.sigBeforeDeadline /\ ~sinkFails
    /\ pc["main"] = "returned"

\* C8 as stated: a handler that returns the error msg before the deadline gets
\* status 500 and a JSON error body whose message contains msg.
C8_HandlerErrorGives500 ==
    ErrorServedInTime
        => /\ sink.status = StatusInternalServerError
           /\ \E i \in DOMAIN sink.body :
                 /\ sink.body[i].kind = "error"
                 /\ Contains(sink.body[i].msg, ending.err)

\* C8 amended: a handler that returns the error msg before the deadline gets a
\* JSON error body {"error":"internal server error: <msg>"} written by its
\* adapter, and status 500 provided the handler had written nothing before it
\* returned (a status the handler wrote first stands).
C8_HandlerErrorBody ==
    ErrorServedInTime
        => /\ ErrorBody(<<"internal server error: ">> \o ending.err) \in Range(sink.body)
           /\ (script = <<>> =>
                 /\ sink.status = StatusInternalServerError
                 /\ sink.body[1] = ErrorBody(<<"internal server error: ">> \o ending.err))

\* Served by the default router on the completion branch: 500 and the message.
C8_Witness ==
    /\ ErrorServedInTime /\ chain = DefaultChain /\ script = <<>>
    /\ tstate = "completed"
    /\ sink.status = StatusInternalServerError
    /\ sink.body[1] = ErrorBody(<<"internal server error: ", "handler error">>)

----------------------------------------------------------------------------
(* C9 *)

\* The trace of a request through middleware M around handler h when M[1] is
\* outermost: M[1] .. M[n] enter in order, h handles, M[n] .. M[1] exit.
OutermostFirst(h, M) ==
    [i \in 1..(2 * Len(M) + 1) |->
        IF i <= Len(M) THEN [ev |-> "enter", id |-> M[i]]
        ELSE IF i = Len(M) + 1 THEN [ev |-> "handle", id |-> h]
        ELSE [ev |-> "exit", id |-> M[2 * Len(M) + 2 - i]]]

\* The trace recorded for the composed handler n.
TraceOf(n) == (CHOOSE i \in DOMAIN cServed : cServed[i].of = n)

WasServed(n) == \E i \in DOMAIN cServed : cServed[i].of = n

\* C9: in chainMiddleware(h, m1, ..., mn) m1 is the outermost wrapper and mn
\* the innermost: a request enters m1, ..., mn, reaches h and unwinds in reverse
\* order; with no middleware the result behaves as h.  (chainMiddleware only
\* reads mws, so the traces are compared against the sequences as passed.)
C9_FirstIsOutermost ==
    /\ WasServed("inner") => cServed[TraceOf("inner")].trace = OutermostFirst(cH, cM2)
    /\ WasServed("once") =>
          cServed[TraceOf("once")].trace = OutermostFirst(cH, cM1 \o cM2)
    /\ (WasServed("inner") /\ cM2 = <<>>) =>
          cServed[TraceOf("inner")].trace = ServeHTTP(Terminal(cH))

\* A chain of two different middleware was served: a entered before b.
C9_Witness ==
    /\ cM2 = <<"a", "b">> /\ WasServed("inner")
    /\ cServed[TraceOf("inner")].trace =
          <<[ev |-> "enter", id |-> "a"], [ev |-> "enter", id |-> "b"],
            [ev |-> "handle", id |-> cH],
            [ev |-> "exit", id |-> "b"], [ev |-> "exit", id |-> "a"]>>

----------------------------------------------------------------------------
(* C10 *)

\* C10: composition is associative: a request through
\* chainMiddleware(chainMiddleware(h, M2...), M1...) does exactly what a request
\* through chainMiddleware(h, (M1 ++ M2)...) does.
C10_Associative ==
    (WasServed("nested") /\ WasServed("once"))
        => cServed[TraceOf("nested")].trace = cServed[TraceOf("once")].trace

\* Both compositions of two non-empty, different sequences were served.
C10_Witness ==
    /\ cM1 = <<"a", "b">> /\ cM2 = <<"c">>
    /\ WasServed("nested") /\ WasServed("once")
    /\ Len(cServed[TraceOf("once")].trace) = 7

----------------------------------------------------------------------------
(* C11 *)

\* The middleware wrapped around the terminal handler of h, outermost first.
MiddlewareOf(h) == SubSeq(h, 1, Len(h) - 1)

\* C11: the middleware wrapped around the handler of every registered route is,
\* outermost first, the router's global middleware, then the middleware of the
\* enclosing groups from the outermost group to the innermost, then the
\* middleware given at the registration call.
C11_RouteMiddlewareOrder ==
    \A e \in Routes : MiddlewareOf(e.handler) = e.want

----------------------------------------------------------------------------
(* C12 *)

\* Group p has just been given one more middleware by Use.
UseOn(p) ==
    /\ Len(groups') = Len(groups) /\ mux' = mux
    /\ groups'[p].middleware.len = groups[p].middleware.len + 1

\* C12: parent.Use(mw) leaves the middleware sequence of every sub-group created
\* from the parent before as it was.
C12_ChildKeepsMiddleware ==
    [][\A p \in DOMAIN groups :
          UseOn(p) =>
             \A c \in DOMAIN groups :
                groups[c].parent = p =>
                   Elems(heap', groups'[c].middleware) = Elems(heap, groups[c].middleware)]_vars

----------------------------------------------------------------------------
(* C13 *)

\* The request in served was answered by the multiplexer as it is now.
Answered == served.method # "" /\ served.bindings = Cardinality(mux)

\* P1 + P2 + ... for the prefixes given along the nesting of a group.
RECURSIVE Concat(_)
Concat(ps) == IF ps = <<>> THEN <<>> ELSE Head(ps) \o Concat(Tail(ps))

\* The routes registered through a group.
GroupRoutes == {e \in Routes : e.group # 0}

\* Every route registered through a group is bound under method and
\* P1 + P2 + p, and under that key alone.
BoundUnderFullKey ==
    \A e \in GroupRoutes :
        /\ e.path = Concat(groups[e.group].given) \o e.pattern
        /\ \A f \in Routes : TerminalOf(f.handler) = TerminalOf(e.handler) => f = e

\* A request for the key of a group's route reaches the route's handler.
FullPathReaches ==
    \A e \in GroupRoutes :
        (Answered /\ served.method = e.method /\ served.path = e.path) =>
            /\ served.handler = TerminalOf(e.handler)
            /\ served.status = StatusOK

\* The request served asks, with e's method, for e's pattern without prefix.
Unprefixed(e) ==
    /\ Answered
    /\ served.method = e.method /\ served.path = e.pattern /\ e.path # e.pattern

----------------------------------------------------------------------------
(* C14 *)

\* The calls made on the capturer since it was made.
CapturerCalls == Tail(rcCalls)

\* Some call was WriteHeader with a code of 400 or more, or a Write that the
\* sink failed.
SawError ==
    \E i \in DOMAIN CapturerCalls :
        \/ CapturerCalls[i].op = "hdr" /\ CapturerCalls[i].code >= StatusBadRequest
        \/ CapturerCalls[i].op = "write" /\ CapturerCalls[i].under.err # Nil

----------------------------------------------------------------------------
(* C15 *)

\* The options given, as a set.
OptionSet == Range(options)

\* The durations given with WithTimeout.
Durations == {o.d : o \in {x \in OptionSet : x.name = "WithTimeout"}}

\* The sequences that hold the elements of seq in any order.
Orderings(seq) ==
    {[i \in DOMAIN seq |-> seq[f[i]]] :
        f \in {g \in [DOMAIN seq -> DOMAIN seq] : \A i, j \in DOMAIN seq : g[i] = g[j] => i = j}}

\* The default middleware a router has and the duration its timeout
\* middleware was made with (0: no timeout middleware).
Defaults(h, r) ==
    [middlewares |-> Elems(h, r.middlewares),
     duration |-> IF r.disableTimeout THEN 0 ELSE r.timeout]

DefaultsOf(opts) ==
    LET u == NewResult(<<>>, opts) IN Defaults(u.heap, u.router)

\* The duration of the last WithTimeout of opts, the default when there is none.
RECURSIVE LastDuration(_)
LastDuration(opts) ==
    IF opts = <<>> THEN DefaultTimeout
    ELSE IF opts[Len(opts)].name = "WithTimeout" THEN opts[Len(opts)].d
    ELSE LastDuration(SubSeq(opts, 1, Len(opts) - 1))

\* No timeout middleware is wrapped around any handler of the router, and the
\* request served did not pass through one.
NoTimeoutMiddleware ==
    /\ \A e \in mux : "timeout" \notin Range(e.handler)
    /\ \A i \in DOMAIN served.trace : served.trace[i].id # "timeout"

\* Recovery is installed iff WithoutRecovery is absent, the timeout iff
\* WithoutTimeout is absent, recovery first.
SwitchesIndependent ==
    Elems(heap, router.middlewares) =
        New(WithoutRecovery \in OptionSet, WithoutTimeout \in OptionSet)

\* C15 as stated: the default middleware of vibe.New(options...) and the
\* duration of its timeout are the same for every order of the same options.
C15_OrderOfOptionsIrrelevant ==
    Built =>
        /\ SwitchesIndependent
        /\ \A q \in Orderings(options) : DefaultsOf(q) = Defaults(heap, router)

\* C15: recovery is installed iff WithoutRecovery is absent and the timeout iff
\* WithoutTimeout is absent, whatever the order of the options; the duration is
\* that of the last WithTimeout given, the default when none is given, so the
\* order matters only between WithTimeout options of different durations; with
\* WithoutTimeout no handler is wrapped by the timeout middleware, whatever
\* WithTimeout says.
C15_OptionsDecideDefaults ==
    Built =>
        /\ SwitchesIndependent
        /\ Defaults(heap, router).duration =
              IF WithoutTimeout \in OptionSet THEN 0 ELSE LastDuration(options)
        /\ Cardinality(Durations) <= 1 =>
              \A q \in Orderings(options) : DefaultsOf(q) = Defaults(heap, router)
        /\ WithoutTimeout \in OptionSet => NoTimeoutMiddleware

\* A router built with WithTimeout before WithoutTimeout served its route
\* without a timeout middleware.
C15_Witness ==
    /\ Built /\ Answered
    /\ options = <<WithTimeout(1), WithoutTimeout>>
    /\ served.status = StatusOK
    /\ served.trace = ServeHTTP(<<"recovery", served.handler>>)

----------------------------------------------------------------------------
(* C16 *)

\* The request served was answered by the handler of route e.
ServedBy(e) == Answered /\ served.handler = TerminalOf(e.handler)

\* The request served passed through middleware mw.
PassedThrough(mw) == \E i \in DOMAIN served.trace : served.trace[i] = [ev |-> "enter", id |-> mw]

----------------------------------------------------------------------------
(* C17 *)

\* The request served asks for a path that has routes, none for its method.
OtherMethodOnly ==
    /\ Answered
    /\ \E e \in Routes : e.path = served.path
    /\ \A e \in Routes : e.path = served.path => e.method # served.method

\* C17: a request for a path registered under other methods only is not given
\* to the handler chain; with the method OPTIONS it is answered 200 with an
\* empty body, with any other method 405.
C17_PreflightShortCircuit ==
    OtherMethodOnly =>
        /\ served.trace = <<>>
        /\ served.status =
              IF served.method = "OPTIONS" THEN StatusOK ELSE StatusMethodNotAllowed
        /\ served.method = "OPTIONS" => served.body = ""

----------------------------------------------------------------------------
(* C18 *)

\* The request served matches a registered route.
MatchesRoute == \E e \in Routes : Matches(e, served.method, served.path)

\* C18: once NotFound(h) was called, a request that matches no registered
\* route is answered by h, wrapped by the global middleware, with h's own
\* response; a request that matches a registered route is not given to h.
C18_UnmatchedAnsweredByHandler ==
    \A nf \in mux :
        (nf.kind = "notfound" /\ Answered) =>
            IF MatchesRoute THEN served.handler # TerminalOf(nf.handler)
            ELSE /\ served.handler = TerminalOf(nf.handler)
                 /\ served.trace = ServeHTTP(nf.handler)
                 /\ MiddlewareOf(nf.handler) = nf.want
                 /\ served.status = StatusNotFound
                 /\ served.body = TerminalOf(nf.handler)

----------------------------------------------------------------------------
(* C20 *)

\* C20: with a duration of zero or less the timeout wrapper never takes the
\* completion branch, whatever the handler does and however the two flows
\* interleave, and no panic ends the process.
C20_NonPositiveTimesOut ==
    timeout <= 0 => (tstate # "completed" /\ ~crashed)

----------------------------------------------------------------------------
(* C19 *)

\* The branch request i took rests on its own events: completion only after
\* its own goroutine sent, timeout only after its own deadline; and only its
\* own flows wrote its response.
OwnEventsOnly(i) ==
    /\ conc[i].taken = "completed" => conc[i].handler = "exited"
    /\ conc[i].taken = "timed-out" => conc[i].ctx = "deadline"
    /\ \A k \in DOMAIN conc[i].writers : conc[i].writers[k].req = i
    /\ conc[i].main = "returned" => conc[i].taken # "none"

\* The response of request i is its handler's: 200 and nothing else.
HandlersResponse(i) == conc[i].sink = [status |-> StatusOK, body |-> <<>>]

AllReturned == \A i \in Requests : conc[i].main = "returned"

\* C19 as stated: concurrent requests are independent, and when every handler
\* finished before its own deadline every request takes the completion branch
\* and receives its handler's 200 response.
C19_AllFinishedAllGet200 ==
    /\ \A i \in Requests : OwnEventsOnly(i)
    /\ (AllReturned /\ \A i \in Requests : conc[i].sigLive) =>
          \A i \in Requests : conc[i].taken = "completed" /\ HandlersResponse(i)

\* C19: concurrent requests are independent: the branch a request takes rests
\* on its own completion signal and its own deadline and its response is
\* written by its own flows only; a request whose handler finished before its
\* deadline has status 200, and its response is exactly its handler's when its
\* wrapper took the completion branch.
C19_RequestsIndependent ==
    /\ \A i \in Requests : OwnEventsOnly(i)
    /\ \A i \in Requests :
          (conc[i].main = "returned" /\ conc[i].sigLive) =>
              /\ conc[i].sink.status = StatusOK
              /\ conc[i].taken = "completed" => HandlersResponse(i)

\* All the concurrent requests finished before their deadlines and got their
\* handler's 200.
C19_Witness ==
    /\ AllReturned
    /\ \A i \in Requests :
          conc[i].sigLive /\ conc[i].taken = "completed" /\ HandlersResponse(i)

----------------------------------------------------------------------------
(* C21 *)

\* C21: once a ResponseCapturer has recorded an error, no later call replaces
\* the value Error() returns and the value never goes back to nil.
C21_FirstErrorRetained ==
    [][(rcCalls # <<>> /\ capErr # Nil) => capErr' = capErr]_vars

----------------------------------------------------------------------------
(* C22 *)

\* The chain of route e begins with the global middleware the router had when
\* e was registered, and a request served by e ran exactly that chain.
ComposedAtRegistration(e) ==
    /\ Len(e.handler) > e.usedAt
    /\ SubSeq(e.handler, 1, e.usedAt) = SubSeq(used, 1, e.usedAt)
    /\ ServedBy(e) => served.trace = ServeHTTP(e.handler)

----------------------------------------------------------------------------
(* C23 *)

\* C23: the only panics in flight are the terminal handler's own: a failed
\* write of an error response (by the recovery wrapper, the timeout branch or
\* the adapter) is never raised as a panic.
C23_WriteFailureNeverPanics ==
    \A g \in G :
        out[g].kind = "panic" => ending.kind = "panic" /\ out[g].val = ending.val

----------------------------------------------------------------------------
(* C24 *)

\* The steps of the goroutine WithTimeout starts.
HandlerStep ==
    \/ GoroutineSetErr \/ GoroutineExit \/ GoroutinePanic
    \/ JSONHeader("handler") \/ JSONBody("handler") \/ HandlerOp("handler")
    \/ HandlerEnd("handler") \/ Adapter("handler") \/ AdapterDone("handler")
    \/ RecoveryEnter("handler") \/ RecoveryReturn("handler") \/ Recover("handler")
    \/ RecoverDone("handler")

\* C24: when the function WithTimeout returns has returned, on either branch,
\* the derived context is done; the request the handler goroutine serves
\* carries the derived context; and a done context stops nothing: while the
\* goroutine has not ended it can always take its next step.
C24_ContextCancelledOnReturn ==
    /\ WrapperReturned => ctxErr # "none"
    /\ pc["handler"] # "none" => hist.reqCtx = "derived"
    /\ (ctxErr # "none" /\ Runs("handler")) => ENABLED HandlerStep

\* The invocation returned on the timeout branch with the context done while
\* the handler, holding the derived context, still has calls to make.
C24_Witness ==
    /\ tstate = "timed-out" /\ pc["main"] = "returned" /\ ctxErr # "none"
    /\ hist.reqCtx = "derived"
    /\ pc["handler"] = "call" /\ ip <= Len(script)

----------------------------------------------------------------------------
(* C29 *)

\* C29 as stated: whenever the inbound context is cancelled before the deadline
\* and before the handler signals completion, the wrapper takes the timeout
\* branch and the response is 408 with the body {"error":"request timed out"}.
C29_CancelFirstGives408 ==
    (hist.inboundCancelled /\ hist.cancelBeforeSig /\ ~sinkFails
        /\ pc["main"] = "returned")
        => /\ tstate = "timed-out"
           /\ sink.status = StatusRequestTimeout
           /\ ErrorBody(TimedOutErr) \in Range(sink.body)

\* C29 amended: cancelling the inbound context makes the derived context done,
\* and the select reacts to it as to the deadline: a cancellation that arrives
\* while the controlling flow is blocked in the select, before any completion
\* signal, always takes the timeout branch; the timeout branch is only taken
\* with the derived context done; and once it has written its response to a
\* working sink the body holds {"error":"request timed out"}, with status 408
\* when that write was the first call on the sink.
C29_CancelTakesTimeoutBranch ==
    /\ (hist.inboundCancelled => ctxErr # "none")
    /\ (hist.parkedAtCancel => tstate = "timed-out")
    /\ (tstate = "timed-out" => ctxErr # "none")
    /\ (hist.inboundCancelled /\ tstate = "timed-out" /\ TimeoutWritten /\ ~sinkFails)
          => /\ ErrorBody(TimedOutErr) \in Range(sink.body)
             /\ (wlog[1].who = "timeout" => sink.status = StatusRequestTimeout)

\* The client went away while the select was blocked and the handler had
\* written nothing: the wrapper answered 408 with the timeout body and the
\* handler was left running.
C29_Witness ==
    /\ hist.parkedAtCancel /\ ctxErr = "canceled" /\ pc["main"] = "returned"
    /\ tstate = "timed-out"
    /\ sink = [status |-> StatusRequestTimeout, body |-> <<ErrorBody(TimedOutErr)>>]
    /\ Runs("handler")

----------------------------------------------------------------------------
(* C25 *)

\* The step is a call on the sink by goroutine g.
WritesBy(g) == Len(wlog') = Len(wlog) + 1 /\ wlog'[Len(wlog')].g = g

\* C25: an invocation of the timeout wrapper runs the handler in exactly one
\* more goroutine; while the invocation is running the controlling flow makes
\* no call on the sink; the completion branch is taken only after the goroutine
\* signalled, so the framework's writes on that branch come after the
\* goroutine's last; the controlling flow and a still running goroutine both
\* write only after the timeout branch was taken.
C25_OneWriterUntilTimeout ==
    /\ []((tstate = "none" <=> pc["handler"] = "none")
            /\ (tstate = "completed" => hist.signalled /\ ~Runs("handler")))
    /\ [][WritesBy("main") =>
             /\ tstate # "running"
             /\ (tstate = "completed" => hist.signalled /\ ~Runs("handler"))
             /\ (Runs("handler") => tstate = "timed-out")]_vars

\* After the timeout branch wrote its response the abandoned handler wrote too:
\* two writers on one sink, the first call by the handler alone.
C25_Witness ==
    /\ tstate = "timed-out" /\ Len(wlog) = 4
    /\ wlog[1].g = "handler"
    /\ wlog[2].g = "main" /\ wlog[3].g = "main" /\ wlog[2].who = "timeout"
    /\ wlog[4].g = "handler"

----------------------------------------------------------------------------
(* C26 *)

\* A panic reaches (or will reach) the controlling flow: the handler's own when
\* no goroutine of the timeout wrapper runs it, or the adapter's after a failed
\* write.
PanicInMain ==
    \/ ending.kind = "panic" /\ "timeout" \notin Range(chain)
    \/ sinkFails /\ \E i \in CallsBy({"adapter"}) : wlog[i].g = "main"

\* The sink after the calls sc[i..] made on sink s.
RECURSIVE RunScript(_, _, _)
RunScript(sc, i, s) ==
    IF i > Len(sc) THEN s
    ELSE RunScript(sc, i + 1,
                   IF sc[i].op = "hdr" THEN SinkWriteHeader(s, sc[i].code)
                   ELSE SinkWrite(s, DataBody))

\* The response of the handler served on its own: its calls, and the adapter's
\* 500 when it returns an error.
HandlerAlone ==
    LET s == RunScript(script, 1, [status |-> 0, body |-> <<>>]) IN
    IF ending.kind = "err"
    THEN SinkWrite(SinkWriteHeader(s, StatusInternalServerError),
                   ErrorBody(ErrorMessage(InternalErrorMsg(ending.err))))
    ELSE s

\* C26: when no panic reaches the recovery wrapper it makes no call on the
\* sink and logs nothing, and the response of a handler wrapped by it alone is
\* the response of the handler served on its own; a handler that writes 200
\* and returns nil yields status 200 and no error body either way.
C26_RecoveryTransparent ==
    ~PanicInMain =>
        /\ CallsBy({"recovery"}) = {} /\ logbuf = <<>>
        /\ (chain \in {<<>>, <<"recovery">>} /\ pc["main"] = "returned") =>
              /\ sink = HandlerAlone
              /\ \A i \in DOMAIN wlog : wlog[i].who \in {"handler", "adapter"}
              /\ (script = <<HdrOp(StatusOK)>> /\ ending = NilOut /\ ~sinkFails) =>
                    sink = [status |-> StatusOK, body |-> <<>>]

\* A handler wrapped by the recovery wrapper alone wrote 200 and a body and
\* returned nil: the response is its own and nothing was logged.
C26_Witness ==
    /\ chain = <<"recovery">> /\ ending = NilOut /\ pc["main"] = "returned"
    /\ script = <<HdrOp(StatusOK), WriteOp>>
    /\ sink = [status |-> StatusOK, body |-> <<DataBody>>]
    /\ logbuf = <<>>

----------------------------------------------------------------------------
(* C27 *)

\* The step creates a group or registers a route.
GroupOrRoute == Len(groups') = Len(groups) + 1 \/ mux' # mux

\* C27: creating a sub-group or registering a route (with or without
\* middleware of its own) leaves the middleware sequence of every group that
\* exists already as it was, element for element.
C27_OtherGroupsUnchanged ==
    [][GroupOrRoute =>
          \A c \in DOMAIN groups :
              Elems(heap', groups'[c].middleware) = Elems(heap, groups[c].middleware)]_vars

----------------------------------------------------------------------------
(* C28 *)

\* The goroutine is at its deferred send.
AtSend ==
    \/ pc["handler"] = "send"
    \/ pc["handler"] = "unwind" /\ Layer(depth["handler"] - 1) = "timeout"

\* C28: the goroutine sends on done exactly once, as its last step, and the
\* send never blocks: the channel never holds more than its capacity of one,
\* and whenever the goroutine is at its send, with the select blocked, not yet
\* reached, or gone through the timeout branch, the send can proceed and ends
\* the goroutine.
C28_SendNeverBlocks ==
    /\ done <= DoneCap
    /\ hist.signalled <=> pc["handler"] \in {"exited", "panicked"}
    /\ (~crashed /\ AtSend) => ENABLED (GoroutineExit \/ GoroutinePanic)

\* The timeout branch fired and the wrapper returned; the abandoned handler
\* finished afterwards, sent into the buffer nobody reads and ended.
C28_Witness ==
    /\ fired = <<"timed-out">> /\ pc["main"] = "returned"
    /\ hist.deadlineBeforeSig /\ hist.signalled
    /\ pc["handler"] = "exited" /\ done = DoneCap

----------------------------------------------------------------------------
(* C30 *)

\* The goroutine has ended: it writes neither err nor the capturer any more.
GoroutineEnded == pc["handler"] \in {"exited", "panicked"}

\* The function of the timeout wrapper returns in this step.
WrapperReturns == pc["main"] \in {"gotDone", "timeoutDone"} /\ pc'["main"] = "adapter"

\* C30: err is written by the goroutine only, before it sends on done; the
\* controlling flow reads err only on the completion branch, when the
\* goroutine has sent and ended; the completion branch returns the capturer's
\* error as it was when the handler finished, and what the timeout branch
\* returns is the result of its own write, never err.
C30_ErrorSlotRaceFree ==
    /\ []((pc["main"] = "gotDone" /\ ~crashed) => hist.signalled /\ GoroutineEnded)
    /\ []((GoroutineEnded /\ ~crashed) => errSlot = capErr)
    /\ [][/\ (errSlot' # errSlot =>
                  pc["handler"] = "return" /\ ~hist.signalled /\ pc'["main"] = pc["main"])
          /\ (WrapperReturns /\ tstate = "completed" =>
                  out'["main"] = IF capErr # Nil THEN ErrOut(capErr) ELSE NilOut)
          /\ (WrapperReturns /\ tstate = "timed-out" =>
                  out'["main"] = IF sinkFails THEN ErrOut(WriteError) ELSE NilOut)]_vars

\* The handler answered 404 through the capturer and finished; the completion
\* branch returned the capturer's error.
C30_Witness ==
    /\ tstate = "completed" /\ pc["main"] = "adapter"
    /\ capErr = StatusErr(StatusNotFound) /\ errSlot = capErr
    /\ out["main"] = ErrOut(capErr)

====
